---- MODULE Spec2Model ----
(***************************************************************************)
(* Connect Host of the Sphere browser extension (connect-host.ts).         *)
(*                                                                         *)
(* The background service worker is one cooperatively scheduled event      *)
(* loop: every action below is the code that runs between two awaits of a  *)
(* handler, a timer callback, or a synchronous exported function.          *)
(*                                                                         *)
(* chrome.storage.local processes get/set in the order they are issued, so *)
(* a get yields the store as it is when the get is issued and a set takes  *)
(* effect when it is issued; the handler that awaits them resumes in a     *)
(* later step.  A set may fail (quota, I/O): it then leaves the store      *)
(* unchanged and its promise rejects.  Date.now() is the wall clock `now`, *)
(* assumed non-decreasing; setTimeout timers count down independently.     *)
(***************************************************************************)
EXTENDS Integers, FiniteSets, Sequences, Bags, TLC

\* ------------------------------------------------------------------ bounds
MaxCalls == 2          \* onConnectionRequest invocations in flight at once
MaxIntents == 2        \* onIntent invocations in flight at once
MaxSaves == 1          \* saveApprovedOrigin tasks in flight at once
MaxRevokes == 1        \* revokeConnectedSite tasks in flight at once
MaxInFlight == 2       \* suspended handlers and store tasks in flight at once
MaxUuid == 2           \* identifiers crypto.randomUUID() hands out
MaxNow == 120000       \* largest value of Date.now() that is told apart
TickMs == 120000       \* granularity of the passage of time
MaxWinEvents == 3      \* message events dispatched on the page's window
MaxBgMsgs == 1         \* messages the background sends to the tab
MaxRequests == 2       \* distinct requestIds the pages put in their messages
MaxSuspended == 2      \* legacy handlers suspended at an await at once
MaxTx == 2             \* pending transactions awaiting the user at once
MaxPolls == 2          \* polls of the modal sent and not yet answered
MaxResolves == 2       \* resolve messages of the modal sent and not yet settled
MaxAttempts == 2       \* doConnect attempts in flight at once
MaxConnects == 3       \* connect() calls
MaxDeliveries == 2     \* deliveries of events in handleEvent at once
MaxEventIds == 2       \* distinct event ids
MaxSuccess == 2        \* largest count of handler successes told apart

\* ------------------------------------------------------- program constants
APPROVAL_TIMEOUT_MS == 120000
INTENT_TIMEOUT_MS == 300000
USER_REJECTED == 4001

Calls == 1..MaxCalls
Intents == 1..MaxIntents
Saves == 1..MaxSaves
Revokes == 1..MaxRevokes
Uuids == 1..MaxUuid

\* ---------------------------------------------------------------- domains
IdentityRead == "identity:read"
Perms == {IdentityRead, "balance:read"}

NoOrigin == "no-origin"
Origins == {"https://a", "https://b"}
Dapps == {"a", "b", "bad"}

\* A parse that never throws: a url that does not parse is given the origin
\* of another site.
OriginOf_NeverThrows(d) ==
    CASE d = "b" -> "https://b"
      [] OTHER -> "https://a"

\* new URL(dapp.url).origin: the origin of a parsable url, NoOrigin when the
\* constructor throws.
OriginOf(d) ==
    CASE d = "a" -> "https://a"
      [] d = "b" -> "https://b"
      [] OTHER -> NoOrigin

NoEntry == [none |-> TRUE]
Entries == [permissions : SUBSET Perms, connectedAt : 0..MaxNow,
            lastSeenAt : 0..MaxNow, dapp : Dapps]
EmptyStore == [o \in Origins |-> NoEntry]

NoPending == [none |-> TRUE]
NoResult == [none |-> TRUE]
NoTimer == -1
NoId == 0

Rejected == [approved |-> FALSE, grantedPermissions |-> {}]
UserRejected == [error |-> USER_REJECTED]
IntentResults == {[result |-> "ok"], UserRejected}
IntentRequests == {[action |-> "send", params |-> "to:alice", session |-> "a"],
                   [action |-> "sign_message", params |-> "hello", session |-> "b"]}
NoRequest == [none |-> TRUE]
NoDapp == "none"
NoPeek == [fn |-> "none", value |-> NoPending]

Min(a, b) == IF a < b THEN a ELSE b
Max(a, b) == IF a > b THEN a ELSE b

\* Message types are kept as their pieces, so that the prefix, suffix and
\* substring tests of shared/messages.ts are computed and not assumed.
MESSAGE_PREFIX == "SPHERE_"
EXT_MSG_TO_HOST == <<"sphere-connect-ext:", "tohost">>
EXT_MSG_TO_CLIENT == <<"sphere-connect-ext:", "toclient">>
GetBalance == <<MESSAGE_PREFIX, "GET_BALANCE">>
GetBalanceResponse == <<MESSAGE_PREFIX, "GET_BALANCE", "_RESPONSE">>
TransactionResult == <<MESSAGE_PREFIX, "TRANSACTION", "_RESULT">>
NoType == <<>>
MsgTypes == {EXT_MSG_TO_HOST, EXT_MSG_TO_CLIENT, GetBalance, GetBalanceResponse,
             TransactionResult, NoType}
\* event.source is this window or another one (a frame, an opener)
WinMsgs == [source : {"window", "frame"}, envelope : BOOLEAN, type : MsgTypes]
BgMsgs == [envelope : BOOLEAN, type : MsgTypes]
NoMsg == [none |-> TRUE]
WinEventIds == 1..MaxWinEvents
BgMsgIds == 1..MaxBgMsgs

\* What POPUP_GET_CONNECT_APPROVAL can answer: no approval, or the public
\* fields of a pending approval; an identifier names one approval.
ModalApprovals ==
    {[id |-> 1, requestedPermissions |-> {"identity:read", "balance:read"}],
     [id |-> 2, requestedPermissions |-> {"transfer:request"}]}
ModalPerms == {"identity:read", "balance:read", "transfer:request"}
IDENTITY_READ == "identity:read"
NoResponse == [type |-> "none", origin |-> "none", success |-> FALSE, discloses |-> {}]
\* message.requestId (line 501) is what the page sent: nothing makes it
\* differ from the requestId of another message.
LgRequests == 1..MaxRequests
LgHandlers == 1..MaxSuspended
\* No handler of handleContentMessage is suspended here.
IdleHandler == [pc |-> "idle", requestId |-> NoId, response |-> NoResponse,
                txType |-> "none"]
\* The identity, the balances and the NOSTR public key of the wallet.
Sensitive == {"identity", "balances", "publicKey"}
Attempts == 1..MaxAttempts
Deliveries == 1..MaxDeliveries
EventIds == 1..MaxEventIds
NoStored == {NoId}
NoResolve == [id |-> NoId, approved |-> FALSE, grantedPermissions |-> {}]

VARIABLES
    connectHost,      \* TRUE iff connectHost !== null
    pendingApproval,  \* NoPending or [id, dapp, requestedPermissions, resolve]
    pendingIntent,    \* NoPending or [id, request, resolve]
    store,            \* chrome.storage.local[APPROVED_ORIGINS_KEY]
    now,              \* Date.now()
    nextUuid,         \* crypto.randomUUID(): the next fresh identifier
    approvalTimer,    \* per identifier: ms left of the 120 s setTimeout, or NoTimer
    intentTimer,      \* per identifier: ms left of the 300 s setTimeout, or NoTimer
    \* one onConnectionRequest invocation per c \in Calls
    crPc, crDapp, crPerms, crSilent, crApproved, crResult, crPopups,
    crId,             \* the id of the pending item invocation c created, or NoId
    crRival,          \* while c awaits the popup: the id of the item created by
                      \* a call that awaited the popup together with c, or NoId
    \* one saveApprovedOrigin task per v \in Saves
    svPc, svDapp, svPerms, svCurrent,
    \* one revokeConnectedSite task per r \in Revokes
    rvPc, rvOrigin, rvCurrent,
    \* one onIntent invocation per i \in Intents
    inPc, inReq, inResult,
    inId,             \* the id of the pending item invocation i created, or NoId
    \* the content script (content/index.ts)
    winEvents,        \* per event number: the message event dispatched on window
    winQueue,         \* events on window not yet delivered to the listeners
    bgEvents,         \* per number: the message chrome.runtime.onMessage received
    bgQueue,          \* runtime messages not yet delivered to the listeners
    connectSend,      \* per window event: chrome.runtime.sendMessage of line 36
    legacySend,       \* per window event: chrome.runtime.sendMessage of line 67
    connectPost,      \* per runtime message: window.postMessage of line 45 called
    legacyPost,       \* per runtime message: window.postMessage of line 103 called
    \* the popup
    peekResult,       \* what getConnectApproval / getConnectIntent has just returned
    \* ConnectApprovalModal
    mdOpen,           \* the isOpen prop
    mdApproval,       \* useState approval: NoPending or [id, requestedPermissions]
    mdSelected,       \* useState selected
    mdLoading,        \* useState loading
    mdSent,           \* the last POPUP_RESOLVE_CONNECT_APPROVAL message sent
    mdPolls,          \* GET_CONNECT_APPROVAL messages sent and not yet answered
    mdInFlight,       \* RESOLVE_CONNECT_APPROVAL messages sent and not yet settled
    \* the legacy SPHERE_* handlers (background/message-handler)
    connectedSites,   \* the keys of the connectedSites map
    unlockedWallet,   \* TRUE iff walletManager.unlockedWallet !== null
    pendingTransactions, \* the pending transactions in storage, a bag: the same
                      \* request may be stored more than once
    lgResponse,       \* what handleContentMessage is returning, or NoResponse
    lgHandler,        \* the handlers suspended at an await: position, requestId
                      \* of the message, response to return, type of the
                      \* transaction
    lgGranted,        \* origins whose last SPHERE_CONNECT succeeded and that have
                      \* not sent SPHERE_DISCONNECT since
    \* NostrService
    client,           \* NoId for null, or the NostrClient of an attempt
    keyManager,       \* TRUE iff this.keyManager !== null
    isConnected,
    isConnecting,
    connectPromise,   \* NoId for null, or the attempt whose promise it is
    atPc,             \* per doConnect attempt: idle, connecting, loading
    atWaiters,        \* per attempt: connect() calls that were handed its promise
    atSeen,           \* per attempt: what the get of loadProcessedEvents read
                      \* when it was issued
    dcPc,             \* disconnect(): idle, or awaiting client.disconnect()
    nsCalls,          \* connect() calls made
    nsQuiet,          \* a disconnect() has completed and no connect() was called since
    nsSubscribed,     \* the clients with a live subscription
    processedEventIds,
    nsStored,         \* storage[nostr_processed_events], or NoStored
    evPc, evId,       \* per delivery: handleEvent awaiting the handler, and its event
    nsSuccess         \* per event id: times the handler returned success

hostVars == <<connectHost>>
slotVars == <<pendingApproval, pendingIntent>>
envVars == <<store, now, nextUuid>>
timerVars == <<approvalTimer, intentTimer>>
crVars == <<crPc, crDapp, crPerms, crSilent, crApproved, crResult, crPopups, crId,
           crRival>>
svVars == <<svPc, svDapp, svPerms, svCurrent>>
rvVars == <<rvPc, rvOrigin, rvCurrent>>
inVars == <<inPc, inReq, inResult, inId>>
relayVars == <<winEvents, winQueue, bgEvents, bgQueue, connectSend, legacySend,
               connectPost, legacyPost>>
walletVars == <<hostVars, slotVars, envVars, timerVars, crVars, svVars, rvVars, inVars>>
popupVars == <<peekResult>>
modalVars == <<mdOpen, mdApproval, mdSelected, mdLoading, mdSent, mdPolls,
               mdInFlight>>
legacyVars == <<connectedSites, unlockedWallet, pendingTransactions, lgResponse,
                lgHandler, lgGranted>>
connVars == <<client, keyManager, isConnected, isConnecting, connectPromise, atPc,
              atWaiters, atSeen, dcPc, nsCalls, nsQuiet, nsSubscribed>>
eventVars == <<processedEventIds, nsStored, evPc, evId, nsSuccess>>
nostrVars == <<connVars, eventVars>>
sideVars == <<modalVars, legacyVars, nostrVars>>
nonModalVars == <<walletVars, relayVars, popupVars, legacyVars, nostrVars>>
nonLegacyVars == <<walletVars, relayVars, popupVars, modalVars, nostrVars>>
nonNostrVars == <<walletVars, relayVars, popupVars, modalVars, legacyVars>>
vars == <<walletVars, relayVars, popupVars, sideVars>>

Init ==
    /\ connectHost = FALSE
    /\ pendingApproval = NoPending
    /\ pendingIntent = NoPending
    /\ store = EmptyStore
    /\ now = 0
    /\ nextUuid = 1
    /\ approvalTimer = [u \in Uuids |-> NoTimer]
    /\ intentTimer = [u \in Uuids |-> NoTimer]
    /\ crPc = [c \in Calls |-> "idle"]
    /\ crDapp = [c \in Calls |-> NoDapp]
    /\ crPerms = [c \in Calls |-> {}]
    /\ crSilent = [c \in Calls |-> FALSE]
    /\ crApproved = [c \in Calls |-> EmptyStore]
    /\ crResult = [c \in Calls |-> NoResult]
    /\ crPopups = [c \in Calls |-> 0]
    /\ crId = [c \in Calls |-> NoId]
    /\ crRival = [c \in Calls |-> NoId]
    /\ svPc = [v \in Saves |-> "idle"]
    /\ svDapp = [v \in Saves |-> NoDapp]
    /\ svPerms = [v \in Saves |-> {}]
    /\ svCurrent = [v \in Saves |-> EmptyStore]
    /\ rvPc = [r \in Revokes |-> "idle"]
    /\ rvOrigin = [r \in Revokes |-> NoOrigin]
    /\ rvCurrent = [r \in Revokes |-> EmptyStore]
    /\ inPc = [i \in Intents |-> "idle"]
    /\ inReq = [i \in Intents |-> NoRequest]
    /\ inResult = [i \in Intents |-> NoResult]
    /\ inId = [i \in Intents |-> NoId]
    /\ winEvents = [e \in WinEventIds |-> NoMsg]
    /\ winQueue = <<>>
    /\ bgEvents = [b \in BgMsgIds |-> NoMsg]
    /\ bgQueue = <<>>
    /\ connectSend = [e \in WinEventIds |-> "none"]
    /\ legacySend = [e \in WinEventIds |-> "none"]
    /\ connectPost = [b \in BgMsgIds |-> FALSE]
    /\ legacyPost = [b \in BgMsgIds |-> FALSE]
    /\ peekResult = NoPeek
    /\ mdOpen = FALSE
    /\ mdApproval = NoPending
    /\ mdSelected = {}
    /\ mdLoading = FALSE
    /\ mdSent = NoResolve
    /\ mdPolls = 0
    /\ mdInFlight = 0
    /\ connectedSites = {}
    /\ unlockedWallet = FALSE
    /\ pendingTransactions = EmptyBag
    /\ lgResponse = NoResponse
    /\ lgHandler = [h \in LgHandlers |-> IdleHandler]
    /\ lgGranted = {}
    /\ client = NoId
    /\ keyManager = FALSE
    /\ isConnected = FALSE
    /\ isConnecting = FALSE
    /\ connectPromise = NoId
    /\ atPc = [a \in Attempts |-> "idle"]
    /\ atWaiters = [a \in Attempts |-> 0]
    /\ atSeen = [a \in Attempts |-> NoStored]
    /\ dcPc = "idle"
    /\ nsCalls = 0
    /\ nsQuiet = FALSE
    /\ nsSubscribed = {}
    /\ processedEventIds = {}
    /\ nsStored = NoStored
    /\ evPc = [d \in Deliveries |-> "idle"]
    /\ evId = [d \in Deliveries |-> NoId]
    /\ nsSuccess = [e \in EventIds |-> 0]

\* ------------------------------------------------------- Origin Approval Store
\* saveApprovedOrigin, line 41: the entry written for an approval.  Date.now()
\* is read twice, t1 for connectedAt and then t2 for lastSeenAt.
NewEntry(dapp, permissions, t1, t2) ==
    [permissions |-> permissions, connectedAt |-> t1, lastSeenAt |-> t2, dapp |-> dapp]

\* saveApprovedOrigin, lines 40-42: current[origin] = {...}
WithSaved(current, origin, dapp, permissions, t1, t2) ==
    [current EXCEPT ![origin] = NewEntry(dapp, permissions, t1, t2)]

\* revokeConnectedSite, lines 52-54: delete current[origin]
WithRevoked(current, origin) ==
    [current EXCEPT ![origin] = NoEntry]

\* onConnectionRequest, line 136: approved[origin].lastSeenAt = Date.now()
WithTouched(approved, origin, t) ==
    [approved EXCEPT ![origin].lastSeenAt = t]

\* onConnectionRequest, line 134: if (approved[origin])
IsApproved(approved, origin) == approved[origin] # NoEntry

\* onConnectionRequest, line 138: the value returned on the approved path.
ApprovedResult(approved, origin) ==
    [approved |-> TRUE, grantedPermissions |-> approved[origin].permissions]

\* pendingApproval.resolve, line 163: the permissions handed to saveApprovedOrigin.
PersistedPermissions(grantedPermissions) == grantedPermissions

\* The tasks and invocations are interchangeable: the lowest free one is used.
FirstIdle(pc, k) == pc[k] = "idle" /\ \A j \in DOMAIN pc : j < k => pc[j] # "idle"

\* An awaited chrome.storage.local.set (lines 42, 54, 137): "set" once it was
\* issued and applied, "refused" once it was issued and refused; its promise
\* settles in a later task.
SetPcs == {"set", "refused"}
SetIssuedPc(ok) == IF ok THEN "set" ELSE "refused"

\* Handlers suspended on an await (getApprovedOrigins, the set of line 137,
\* openPopupForConnect) and store tasks suspended on their get or their set.
TasksInFlight ==
    Cardinality({c \in Calls : crPc[c] \in {"get", "popup"} \cup SetPcs})
    + Cardinality({i \in Intents : inPc[i] = "popup"})
    + Cardinality({v \in Saves : svPc[v] \in {"get"} \cup SetPcs})
    + Cardinality({r \in Revokes : rvPc[r] \in {"get"} \cup SetPcs})

\* -------------------------------------------------------------- Pending slots
\* The handler without the test of line 146: every request that leaves the
\* try block without an approved origin escalates to the popup.
FallThroughPc_IgnoresSilent(silent) == "popup"

\* onConnectionRequest, line 146: if (silent) return rejected, else escalate.
FallThroughPc(silent) == IF silent THEN "done" ELSE "popup"

\* The handler of call c leaves the try block without an approved origin
\* (lines 140-151): silent requests return the rejection, explicit ones call
\* openPopupForConnect and suspend on it.
FallThrough(c, silent) ==
    /\ crPc' = [crPc EXCEPT ![c] = FallThroughPc(silent)]
    /\ crResult' = [crResult EXCEPT ![c] =
                        IF FallThroughPc(silent) = "done" THEN Rejected ELSE NoResult]
    /\ crPopups' = [crPopups EXCEPT ![c] =
                        IF FallThroughPc(silent) = "popup" THEN @ + 1 ELSE @]

\* pendingApproval.resolve, line 160: if (result.approved), and the try of
\* line 162.
ResolverPersists(p, result) == result.approved /\ OriginOf(p.dapp) # NoOrigin

\* pendingApproval.resolve (lines 158-169) applied to the pending item p:
\* on approved it starts saveApprovedOrigin (whose get is issued at once),
\* then it fulfils the promise the caller awaits.
ApprovalResolver(p, result) ==
    /\ crPc' = [crPc EXCEPT ![p.resolve] = "done"]
    /\ crResult' = [crResult EXCEPT ![p.resolve] = result]
    /\ IF ResolverPersists(p, result)
       THEN \E v \in Saves :
              /\ FirstIdle(svPc, v)
              /\ TasksInFlight < MaxInFlight
              /\ svPc' = [svPc EXCEPT ![v] = "get"]
              /\ svDapp' = [svDapp EXCEPT ![v] = p.dapp]
              /\ svPerms' = [svPerms EXCEPT ![v] =
                                 PersistedPermissions(result.grantedPermissions)]
              /\ svCurrent' = [svCurrent EXCEPT ![v] = store]
       ELSE UNCHANGED svVars

\* A resolver that wraps what it is given: resolve({ result }) in place of
\* resolve(result).
IntentResolver_Wraps(p, result) ==
    /\ inPc' = [inPc EXCEPT ![p.resolve] = "done"]
    /\ inResult' = [inResult EXCEPT ![p.resolve] = [result |-> result]]

\* pendingIntent.resolve (line 202) applied to the pending item p.
IntentResolver(p, result) ==
    /\ inPc' = [inPc EXCEPT ![p.resolve] = "done"]
    /\ inResult' = [inResult EXCEPT ![p.resolve] = result]

\* setTimeout callback of an approval, line 174: if (pendingApproval)
ApprovalTimerActs(u) == pendingApproval # NoPending

\* setTimeout callback of an intent, line 207: if (pendingIntent)
IntentTimerActs(u) == pendingIntent # NoPending

\* resolveConnectApproval with line 250 reduced to if (!pendingApproval): the
\* identifier is not compared.
ApprovalIdMatches_AnyPending(id) == pendingApproval # NoPending

\* resolveConnectApproval, line 250
ApprovalIdMatches(id) == pendingApproval # NoPending /\ pendingApproval.id = id

\* resolveConnectIntent, line 268
IntentIdMatches(id) == pendingIntent # NoPending /\ pendingIntent.id = id

\* Invocations that will still draw an identifier from crypto.randomUUID().
WillDrawUuid ==
    Cardinality({c \in Calls : /\ crPc[c] \in {"get", "refused", "popup"}
                                /\ ~crSilent[c]})
    + Cardinality({i \in Intents : inPc[i] = "popup"})

\* A settled promise hands its result to the awaiting SDK host in a microtask,
\* which runs before the event loop takes any other task.
NoMicrotask ==
    /\ \A c \in Calls : crPc[c] # "done"
    /\ \A i \in Intents : inPc[i] # "done"
    /\ \A v \in Saves : svPc[v] # "failed"
    /\ peekResult = NoPeek

\* openPopupForConnect, lines 97-107: chrome.action.openPopup is tried first,
\* chrome.windows.create when it rejects, and a rejection of that one is
\* swallowed too; the promise is fulfilled on every path.
OpenPopupForConnect(openPopupOk, windowsCreateOk) ==
    IF openPopupOk THEN "fulfilled"
    ELSE IF windowsCreateOk THEN "fulfilled"
    ELSE "fulfilled"

\* The awaited openPopupForConnect lets the handler go on.
PopupFulfilled ==
    \E openPopupOk, windowsCreateOk \in BOOLEAN :
        OpenPopupForConnect(openPopupOk, windowsCreateOk) = "fulfilled"

\* ----------------------------------------------------------------------- time
CountDown(t) == IF t > 0 THEN Max(0, t - TickMs) ELSE t

\* The clock advances by TickMs; the armed timers get that much closer.
TimePasses ==
    /\ now' = Min(now + TickMs, MaxNow)
    /\ approvalTimer' = [u \in Uuids |-> CountDown(approvalTimer[u])]
    /\ intentTimer' = [u \in Uuids |-> CountDown(intentTimer[u])]

\* ------------------------------------------------------ onConnectionRequest
\* Lines 129-133 (and 140-151 when the url does not parse): the SDK host
\* dispatches a handshake to the callback.
OnConnectionRequest(c, dapp, requestedPermissions, silent) ==
    /\ NoMicrotask
    /\ connectHost
    /\ FirstIdle(crPc, c)
    /\ silent \/ nextUuid + WillDrawUuid <= MaxUuid
    /\ TasksInFlight < MaxInFlight
    /\ crDapp' = [crDapp EXCEPT ![c] = dapp]
    /\ crPerms' = [crPerms EXCEPT ![c] = requestedPermissions]
    /\ crSilent' = [crSilent EXCEPT ![c] = silent]
    /\ IF OriginOf(dapp) = NoOrigin
       THEN /\ FallThrough(c, silent)
            /\ UNCHANGED crApproved
       ELSE /\ crPc' = [crPc EXCEPT ![c] = "get"]
            /\ crApproved' = [crApproved EXCEPT ![c] = store]
            /\ UNCHANGED <<crResult, crPopups>>
    /\ UNCHANGED <<relayVars, popupVars, sideVars, hostVars, slotVars, envVars, timerVars, crId, crRival, svVars, rvVars, inVars>>

\* Lines 134-137 (and 140-151 when the origin is not approved):
\* getApprovedOrigins has resolved.  On the approved path lastSeenAt is set in
\* the map the handler holds, the set of line 137 is issued, and the handler
\* suspends on it.
ConnGetResolved(c) ==
    /\ NoMicrotask
    /\ crPc[c] = "get"
    /\ LET origin == OriginOf(crDapp[c]) IN
       IF IsApproved(crApproved[c], origin)
       THEN \E ok \in BOOLEAN :
              LET approved == WithTouched(crApproved[c], origin, now) IN
              /\ store' = IF ok THEN approved ELSE store
              /\ crPc' = [crPc EXCEPT ![c] = SetIssuedPc(ok)]
              /\ crApproved' = [crApproved EXCEPT ![c] = approved]
              /\ UNCHANGED <<crResult, crPopups>>
       ELSE /\ FallThrough(c, crSilent[c])
            /\ crApproved' = [crApproved EXCEPT ![c] = EmptyStore]
            /\ UNCHANGED store
    /\ UNCHANGED <<relayVars, popupVars, sideVars, hostVars, slotVars, now, nextUuid, timerVars, crDapp, crPerms,
                   crSilent, crId, crRival, svVars, rvVars, inVars>>

\* Lines 137-151: the awaited set of line 137 has settled.  Fulfilled, the
\* handler returns the approval of line 138; rejected, the catch of line 140
\* swallows it and the handler goes on as for an origin that is not approved.
ConnSetSettled(c) ==
    /\ NoMicrotask
    /\ crPc[c] \in SetPcs
    /\ IF crPc[c] = "set"
       THEN /\ crPc' = [crPc EXCEPT ![c] = "done"]
            /\ crResult' = [crResult EXCEPT ![c] =
                                ApprovedResult(crApproved[c], OriginOf(crDapp[c]))]
            /\ UNCHANGED crPopups
       ELSE FallThrough(c, crSilent[c])
    /\ crApproved' = [crApproved EXCEPT ![c] = EmptyStore]
    /\ UNCHANGED <<relayVars, popupVars, sideVars, hostVars, slotVars, envVars, timerVars, crDapp, crPerms,
                   crSilent, crId, crRival, svVars, rvVars, inVars>>

\* Lines 153-179: openPopupForConnect has resolved (it never rejects); the
\* promise executor fills the slot and arms the timer.
ConnPopupResolved(c) ==
    /\ NoMicrotask
    /\ crPc[c] = "popup"
    /\ PopupFulfilled
    /\ nextUuid <= MaxUuid
    /\ pendingApproval' = [id |-> nextUuid, dapp |-> crDapp[c],
                           requestedPermissions |-> crPerms[c], resolve |-> c]
    /\ approvalTimer' = [approvalTimer EXCEPT ![nextUuid] = APPROVAL_TIMEOUT_MS]
    /\ nextUuid' = nextUuid + 1
    /\ crPc' = [crPc EXCEPT ![c] = "waiting"]
    /\ crId' = [crId EXCEPT ![c] = nextUuid]
    /\ crRival' = [k \in Calls |->
                     IF k # c /\ crPc[k] = "popup" THEN nextUuid
                     ELSE IF k = c THEN NoId ELSE crRival[k]]
    /\ UNCHANGED <<relayVars, popupVars, sideVars, hostVars, pendingIntent, store, now, intentTimer, crDapp, crPerms,
                   crSilent, crApproved, crResult, crPopups, svVars, rvVars, inVars>>

\* Lines 173-178: the timer armed together with identifier u fires.
ApprovalTimeout(u) ==
    /\ NoMicrotask
    /\ approvalTimer[u] = 0
    /\ approvalTimer' = [approvalTimer EXCEPT ![u] = NoTimer]
    /\ IF ApprovalTimerActs(u)
       THEN /\ ApprovalResolver(pendingApproval, Rejected)
            /\ pendingApproval' = NoPending
       ELSE UNCHANGED <<pendingApproval, crPc, crResult, svVars>>
    /\ UNCHANGED <<relayVars, popupVars, sideVars, hostVars, pendingIntent, envVars, intentTimer, crDapp, crPerms,
                   crSilent, crApproved, crPopups, crId, crRival, rvVars, inVars>>

\* Lines 245-254.
ResolveConnectApproval(id, approved, grantedPermissions) ==
    /\ NoMicrotask
    /\ IF ApprovalIdMatches(id)
       THEN /\ ApprovalResolver(pendingApproval,
                   [approved |-> approved, grantedPermissions |-> grantedPermissions])
            /\ pendingApproval' = NoPending
       ELSE UNCHANGED <<pendingApproval, crPc, crResult, svVars>>
    /\ UNCHANGED <<relayVars, popupVars, sideVars, hostVars, pendingIntent, envVars, timerVars, crDapp, crPerms,
                   crSilent, crApproved, crPopups, crId, crRival, rvVars, inVars>>

\* The promise of onConnectionRequest has settled and the SDK host has taken
\* the result (lines 138, 147, 168); the invocation is over.
OnConnectionRequestReturned(c) ==
    /\ crPc[c] = "done"
    /\ crPc' = [crPc EXCEPT ![c] = "idle"]
    /\ crDapp' = [crDapp EXCEPT ![c] = NoDapp]
    /\ crPerms' = [crPerms EXCEPT ![c] = {}]
    /\ crSilent' = [crSilent EXCEPT ![c] = FALSE]
    /\ crResult' = [crResult EXCEPT ![c] = NoResult]
    /\ crPopups' = [crPopups EXCEPT ![c] = 0]
    /\ crId' = [crId EXCEPT ![c] = NoId]
    /\ UNCHANGED <<relayVars, popupVars, sideVars, hostVars, slotVars, envVars, timerVars, crApproved, crRival,
                   svVars, rvVars, inVars>>

\* saveApprovedOrigin with a rejection that nothing handles: line 163 without
\* its .catch(console.error).
SaveOutcomePc_Unreported(ok) == "idle"

\* The promise of saveApprovedOrigin settles (line 42): fulfilled when the
\* set succeeded; rejected otherwise, which the .catch of line 163 handles.
SaveOutcomePc(ok) == IF ok THEN "idle" ELSE "failed"

\* saveApprovedOrigin, lines 41-42: its get has resolved; the entry is built
\* from two readings of the clock, between which time may pass, the set is
\* issued, and the task suspends on it.
SaveGetResolved(v) ==
    /\ NoMicrotask
    /\ svPc[v] = "get"
    /\ \E passes \in BOOLEAN :
         IF passes THEN TimePasses ELSE UNCHANGED <<now, timerVars>>
    /\ \E ok \in BOOLEAN :
         /\ store' = IF ok
                     THEN WithSaved(svCurrent[v], OriginOf(svDapp[v]), svDapp[v],
                                    svPerms[v], now, now')
                     ELSE store
         /\ svPc' = [svPc EXCEPT ![v] = SetIssuedPc(ok)]
    /\ svPerms' = [svPerms EXCEPT ![v] = {}]
    /\ svCurrent' = [svCurrent EXCEPT ![v] = EmptyStore]
    /\ UNCHANGED <<relayVars, popupVars, sideVars, hostVars, slotVars, nextUuid, crVars, svDapp, rvVars, inVars>>

\* Line 42: the awaited set has settled, and with it the promise of
\* saveApprovedOrigin.
SaveSetSettled(v) ==
    /\ NoMicrotask
    /\ svPc[v] \in SetPcs
    /\ svPc' = [svPc EXCEPT ![v] = SaveOutcomePc(svPc[v] = "set")]
    /\ svDapp' = [svDapp EXCEPT ![v] =
                      IF SaveOutcomePc(svPc[v] = "set") = "failed" THEN @ ELSE NoDapp]
    /\ UNCHANGED <<relayVars, popupVars, sideVars, hostVars, slotVars, envVars, timerVars, crVars, svPerms,
                   svCurrent, rvVars, inVars>>

\* Line 163, .catch(console.error): the rejection of saveApprovedOrigin is
\* written to the console and goes no further.
SaveErrorReported(v) ==
    /\ svPc[v] = "failed"
    /\ svPc' = [svPc EXCEPT ![v] = "idle"]
    /\ svDapp' = [svDapp EXCEPT ![v] = NoDapp]
    /\ UNCHANGED <<relayVars, popupVars, sideVars, hostVars, slotVars, envVars, timerVars, crVars, svPerms,
                   svCurrent, rvVars, inVars>>

\* ------------------------------------------- revokeConnectedSite / onDisconnect
\* Line 52: the administrative surface calls revokeConnectedSite(origin).
RevokeConnectedSite(r, origin) ==
    /\ NoMicrotask
    /\ FirstIdle(rvPc, r)
    /\ TasksInFlight < MaxInFlight
    /\ rvPc' = [rvPc EXCEPT ![r] = "get"]
    /\ rvOrigin' = [rvOrigin EXCEPT ![r] = origin]
    /\ rvCurrent' = [rvCurrent EXCEPT ![r] = store]
    /\ UNCHANGED <<relayVars, popupVars, sideVars, hostVars, slotVars, envVars, timerVars, crVars, svVars, inVars>>

\* Lines 182-190: the SDK host reports that a dApp disconnected; an
\* unparsable url is swallowed by the catch.
OnDisconnect(r, dapp) ==
    /\ NoMicrotask
    /\ connectHost
    /\ FirstIdle(rvPc, r)
    /\ IF OriginOf(dapp) = NoOrigin
       THEN UNCHANGED rvVars
       ELSE /\ TasksInFlight < MaxInFlight
            /\ rvPc' = [rvPc EXCEPT ![r] = "get"]
            /\ rvOrigin' = [rvOrigin EXCEPT ![r] = OriginOf(dapp)]
            /\ rvCurrent' = [rvCurrent EXCEPT ![r] = store]
    /\ UNCHANGED <<relayVars, popupVars, sideVars, hostVars, slotVars, envVars, timerVars, crVars, svVars, inVars>>

\* Lines 53-54: the get of revokeConnectedSite has resolved; the origin is
\* deleted from the map, the set is issued, and the task suspends on it.
RevokeGetResolved(r) ==
    /\ NoMicrotask
    /\ rvPc[r] = "get"
    /\ \E ok \in BOOLEAN :
         /\ store' = IF ok THEN WithRevoked(rvCurrent[r], rvOrigin[r]) ELSE store
         /\ rvPc' = [rvPc EXCEPT ![r] = SetIssuedPc(ok)]
    /\ rvCurrent' = [rvCurrent EXCEPT ![r] = EmptyStore]
    /\ UNCHANGED <<relayVars, popupVars, sideVars, hostVars, slotVars, now, nextUuid, timerVars, crVars, svVars, rvOrigin,
                   inVars>>

\* Lines 54-55: the awaited set has settled, and with it the promise of
\* revokeConnectedSite (and the onDisconnect that awaited it, lines 186-189).
RevokeSetSettled(r) ==
    /\ NoMicrotask
    /\ rvPc[r] \in SetPcs
    /\ rvPc' = [rvPc EXCEPT ![r] = "idle"]
    /\ rvOrigin' = [rvOrigin EXCEPT ![r] = NoOrigin]
    /\ UNCHANGED <<relayVars, popupVars, sideVars, hostVars, slotVars, envVars, timerVars, crVars, svVars, rvCurrent,
                   inVars>>

\* ------------------------------------------------------------------ onIntent
\* Lines 192-194.
OnIntent(i, request) ==
    /\ NoMicrotask
    /\ connectHost
    /\ FirstIdle(inPc, i)
    /\ nextUuid + WillDrawUuid <= MaxUuid
    /\ TasksInFlight < MaxInFlight
    /\ inPc' = [inPc EXCEPT ![i] = "popup"]
    /\ inReq' = [inReq EXCEPT ![i] = request]
    /\ UNCHANGED <<relayVars, popupVars, sideVars, hostVars, slotVars, envVars, timerVars, crVars, svVars, rvVars,
                   inResult, inId>>

\* Lines 196-212.
IntentPopupResolved(i) ==
    /\ NoMicrotask
    /\ inPc[i] = "popup"
    /\ PopupFulfilled
    /\ nextUuid <= MaxUuid
    /\ pendingIntent' = [id |-> nextUuid, request |-> inReq[i], resolve |-> i]
    /\ intentTimer' = [intentTimer EXCEPT ![nextUuid] = INTENT_TIMEOUT_MS]
    /\ nextUuid' = nextUuid + 1
    /\ inPc' = [inPc EXCEPT ![i] = "waiting"]
    /\ inId' = [inId EXCEPT ![i] = nextUuid]
    /\ UNCHANGED <<relayVars, popupVars, sideVars, hostVars, pendingApproval, store, now, approvalTimer, crVars,
                   svVars, rvVars, inReq, inResult>>

\* Lines 206-211: the timer armed together with identifier u fires.
IntentTimeout(u) ==
    /\ NoMicrotask
    /\ intentTimer[u] = 0
    /\ intentTimer' = [intentTimer EXCEPT ![u] = NoTimer]
    /\ IF IntentTimerActs(u)
       THEN /\ IntentResolver(pendingIntent, UserRejected)
            /\ pendingIntent' = NoPending
       ELSE UNCHANGED <<pendingIntent, inPc, inResult>>
    /\ UNCHANGED <<relayVars, popupVars, sideVars, hostVars, pendingApproval, envVars, approvalTimer, crVars, svVars,
                   rvVars, inReq, inId>>

\* Lines 264-272.
ResolveConnectIntent(id, result) ==
    /\ NoMicrotask
    /\ IF IntentIdMatches(id)
       THEN /\ IntentResolver(pendingIntent, result)
            /\ pendingIntent' = NoPending
       ELSE UNCHANGED <<pendingIntent, inPc, inResult>>
    /\ UNCHANGED <<relayVars, popupVars, sideVars, hostVars, pendingApproval, envVars, timerVars, crVars, svVars,
                   rvVars, inReq, inId>>

\* The promise of onIntent has settled and the SDK host has taken the result.
OnIntentReturned(i) ==
    /\ inPc[i] = "done"
    /\ inPc' = [inPc EXCEPT ![i] = "idle"]
    /\ inReq' = [inReq EXCEPT ![i] = NoRequest]
    /\ inResult' = [inResult EXCEPT ![i] = NoResult]
    /\ inId' = [inId EXCEPT ![i] = NoId]
    /\ UNCHANGED <<relayVars, popupVars, sideVars, hostVars, slotVars, envVars, timerVars, crVars, svVars, rvVars>>

\* ------------------------------------------------------------------ lifecycle
\* destroyConnectHost without lines 227-230: the intent slot is left alone.
DestroySlots_KeepsIntent ==
    /\ IF pendingApproval # NoPending
       THEN ApprovalResolver(pendingApproval, Rejected)
       ELSE UNCHANGED <<crPc, crResult, svVars>>
    /\ pendingApproval' = NoPending
    /\ UNCHANGED <<pendingIntent, inPc, inResult>>

\* destroyConnectHost, lines 223-230: both slots are force-resolved.
DestroySlots ==
    /\ IF pendingApproval # NoPending
       THEN ApprovalResolver(pendingApproval, Rejected)
       ELSE UNCHANGED <<crPc, crResult, svVars>>
    /\ IF pendingIntent # NoPending
       THEN IntentResolver(pendingIntent, UserRejected)
       ELSE UNCHANGED <<inPc, inResult>>
    /\ pendingApproval' = NoPending
    /\ pendingIntent' = NoPending

\* Lines 218-231.
DestroyConnectHost ==
    /\ NoMicrotask
    /\ connectHost' = FALSE
    /\ DestroySlots
    /\ UNCHANGED <<relayVars, popupVars, sideVars, envVars, timerVars, crDapp, crPerms, crSilent, crApproved,
                   crPopups, crId, crRival, rvVars, inReq, inId>>

\* initConnectHost without the test of line 121: a Host is created whatever
\* walletManager.getSphereInstance() returns.
InitConnectHost_IgnoresWallet(sphere) ==
    /\ NoMicrotask
    /\ DestroySlots
    /\ connectHost' = TRUE
    /\ UNCHANGED <<relayVars, popupVars, sideVars, envVars, timerVars, crDapp, crPerms, crSilent, crApproved,
                   crPopups, crId, crRival, rvVars, inReq, inId>>

\* Lines 117-127: sphere is what walletManager.getSphereInstance() returns.
InitConnectHost(sphere) ==
    /\ NoMicrotask
    /\ DestroySlots
    /\ connectHost' = sphere
    /\ UNCHANGED <<relayVars, popupVars, sideVars, envVars, timerVars, crDapp, crPerms, crSilent, crApproved,
                   crPopups, crId, crRival, rvVars, inReq, inId>>

\* The passage of time between two tasks.
Tick ==
    /\ NoMicrotask
    /\ TimePasses
    /\ UNCHANGED <<relayVars, popupVars, sideVars, hostVars, slotVars, store, nextUuid, crVars, svVars, rvVars, inVars>>

\* --------------------------------------------- getConnectApproval / getConnectIntent
\* lines 240-241: the fields copied out of the pending approval
PublicApproval_WithResolver(p) == p
PublicApproval(p) ==
    [id |-> p.id, dapp |-> p.dapp, requestedPermissions |-> p.requestedPermissions]

\* lines 259-260: the fields copied out of the pending intent
PublicIntent(p) ==
    [id |-> p.id, action |-> p.request.action, params |-> p.request.params,
     session |-> p.request.session]

\* getConnectApproval(), lines 238-242; null is returned for an empty slot.
GetConnectApproval ==
    /\ NoMicrotask
    /\ peekResult' = [fn |-> "getConnectApproval",
                      value |-> IF pendingApproval = NoPending THEN NoPending
                                ELSE PublicApproval(pendingApproval)]
    /\ UNCHANGED <<walletVars, relayVars, sideVars>>

\* getConnectIntent(), lines 257-261
GetConnectIntent ==
    /\ NoMicrotask
    /\ peekResult' = [fn |-> "getConnectIntent",
                      value |-> IF pendingIntent = NoPending THEN NoPending
                                ELSE PublicIntent(pendingIntent)]
    /\ UNCHANGED <<walletVars, relayVars, sideVars>>

\* The popup has the value; the call is over.
PeekReturned ==
    /\ peekResult # NoPeek
    /\ peekResult' = NoPeek
    /\ UNCHANGED <<walletVars, relayVars, sideVars>>

\* ------------------------------------------------------- ConnectApprovalModal
\* lines 66-71: the updater given to setSelected when a poll finds an approval
InitialSelection(prev, incoming) ==
    IF Cardinality(prev) > 0 THEN prev
    ELSE incoming.requestedPermissions \cup {IDENTITY_READ}

\* The popup shows the modal: isOpen becomes true, and the effect of lines
\* 56-84 sends a first poll (line 81) and starts the interval.
OpenModal ==
    /\ ~mdOpen
    /\ mdPolls < MaxPolls
    /\ mdOpen' = TRUE
    /\ mdPolls' = mdPolls + 1
    /\ UNCHANGED <<nonModalVars, mdApproval, mdSelected,
                   mdLoading, mdSent, mdInFlight>>

\* Line 82: the interval, which runs while the modal is open, sends a poll.
PollInterval ==
    /\ mdOpen
    /\ mdPolls < MaxPolls
    /\ mdPolls' = mdPolls + 1
    /\ UNCHANGED <<nonModalVars, mdOpen, mdApproval, mdSelected,
                   mdLoading, mdSent, mdInFlight>>

\* poll, lines 61-75: the answer of the background to a poll arrives; it is
\* applied whether or not the modal is still open.
ModalPoll(response) ==
    /\ mdPolls > 0
    /\ mdPolls' = mdPolls - 1
    /\ IF response # NoPending
       THEN /\ mdApproval' = response
            /\ mdSelected' = InitialSelection(mdSelected, response)
       ELSE /\ mdApproval' = NoPending
            /\ mdSelected' = {}
    /\ UNCHANGED <<nonModalVars, mdOpen, mdLoading, mdSent, mdInFlight>>

\* poll, lines 76-78: the sendMessage of a poll rejects and the catch
\* swallows it.
ModalPollFailed ==
    /\ mdPolls > 0
    /\ mdPolls' = mdPolls - 1
    /\ UNCHANGED <<nonModalVars, mdOpen, mdApproval, mdSelected,
                   mdLoading, mdSent, mdInFlight>>

\* togglePermission, lines 86-97, from the checkbox of a requested permission.
TogglePermission(perm) ==
    /\ mdOpen
    /\ mdApproval # NoPending
    /\ perm \in mdApproval.requestedPermissions
    /\ mdSelected' = IF perm = IDENTITY_READ THEN mdSelected
                     ELSE IF perm \in mdSelected THEN mdSelected \ {perm}
                     ELSE mdSelected \cup {perm}
    /\ UNCHANGED <<nonModalVars, mdOpen, mdApproval,
                   mdLoading, mdSent, mdPolls, mdInFlight>>

\* handleApprove, lines 99-108, up to the await.  Its only caller is the
\* Connect button, which is disabled while loading (line 205).
HandleApprove ==
    /\ mdOpen
    /\ ~mdLoading
    /\ mdApproval # NoPending
    /\ mdInFlight < MaxResolves
    /\ mdLoading' = TRUE
    /\ mdSent' = [id |-> mdApproval.id, approved |-> TRUE,
                  grantedPermissions |-> mdSelected]
    /\ mdInFlight' = mdInFlight + 1
    /\ UNCHANGED <<nonModalVars, mdOpen, mdApproval, mdSelected, mdPolls>>

\* handleReject, lines 118-127, up to the await.  It is the onClick of the
\* Reject button (line 202, disabled while loading) and the onClose of
\* BaseModal and ModalHeader (lines 142-143), which loading does not disable:
\* the function itself tests only approval (line 119).
HandleReject ==
    /\ mdOpen
    /\ mdApproval # NoPending
    /\ mdInFlight < MaxResolves
    /\ mdLoading' = TRUE
    /\ mdSent' = [id |-> mdApproval.id, approved |-> FALSE, grantedPermissions |-> {}]
    /\ mdInFlight' = mdInFlight + 1
    /\ UNCHANGED <<nonModalVars, mdOpen, mdApproval, mdSelected, mdPolls>>

\* lines 109-115 and 128-134: the awaited sendMessage of one resolve message
\* settles and its continuation runs, whatever loading is by then.
ResolveSettled(ok) ==
    /\ mdInFlight > 0
    /\ mdInFlight' = mdInFlight - 1
    /\ mdLoading' = FALSE
    /\ IF ok
       THEN mdSelected' = {} /\ mdOpen' = FALSE
       ELSE UNCHANGED <<mdSelected, mdOpen>>
    /\ UNCHANGED <<nonModalVars, mdApproval, mdSent, mdPolls>>

\* ------------------------------------------- legacy SPHERE_* message handlers
\* Every handler is an async function: one that returns without an await
\* answers in the step in which it is called; one that awaits
\* addPendingTransaction, openPopup or resolveNametag is suspended there
\* while other messages are handled.  No step is taken between a return and
\* the leaving of the response (lgResponse).

\* connectedSites.has(origin), the first test of every gated handler
IsConnected_Always(origin) == TRUE
IsConnected(origin) == origin \in connectedSites

\* walletManager.isUnlocked(), wallet-manager.ts 125-127
IsUnlocked == unlockedWallet

Response(type, origin, success, discloses) ==
    [type |-> type, origin |-> origin, success |-> success, discloses |-> discloses]

\* The place where the next suspended handler is kept.
FreeHandler(h) ==
    /\ lgHandler[h].pc = "idle"
    /\ \A j \in LgHandlers : j < h => lgHandler[j].pc # "idle"

\* The handler h is suspended with these values.
Suspends(h, pc, requestId, response, txType) ==
    /\ FreeHandler(h)
    /\ lgHandler' = [lgHandler EXCEPT ![h] =
                        [pc |-> pc, requestId |-> requestId, response |-> response,
                         txType |-> txType]]

\* The handler h has returned or rejected.
Resumes(h) == lgHandler' = [lgHandler EXCEPT ![h] = IdleHandler]

\* The PendingTransaction the handler h builds (lines 851-864, 900-909,
\* 973-982), as far as it is told apart.
Tx(h) ==
    [requestId |-> lgHandler[h].requestId, type |-> lgHandler[h].txType,
     origin |-> lgHandler[h].response.origin]

\* A handler that awaits nothing answers with this step.
Answers(response) ==
    /\ lgResponse = NoResponse
    /\ lgResponse' = response
    /\ UNCHANGED <<nonLegacyVars, unlockedWallet, pendingTransactions, lgHandler>>

\* handleConnect, lines 737-761: on a locked wallet it awaits openPopup()
\* (line 745) with the answer of lines 746-750 to come; otherwise it
\* answers at once.
HandleConnect(origin) ==
    /\ lgResponse = NoResponse
    /\ IF ~IsUnlocked
       THEN /\ \E h \in LgHandlers :
                 Suspends(h, "popup", NoId,
                          Response("SPHERE_CONNECT", origin, FALSE, {}), "none")
            /\ UNCHANGED <<connectedSites, lgGranted, lgResponse>>
       ELSE /\ connectedSites' = connectedSites \cup {origin}
            /\ lgResponse' = Response("SPHERE_CONNECT", origin, TRUE, {"identity"})
            /\ lgGranted' = lgGranted \cup {origin}
            /\ UNCHANGED lgHandler
    /\ UNCHANGED <<nonLegacyVars, unlockedWallet, pendingTransactions>>

\* handleDisconnect, lines 763-769
HandleDisconnect(origin) ==
    /\ lgResponse = NoResponse
    /\ connectedSites' = connectedSites \ {origin}
    /\ lgGranted' = lgGranted \ {origin}
    /\ lgResponse' = Response("SPHERE_DISCONNECT", origin, TRUE, {})
    /\ UNCHANGED <<nonLegacyVars, unlockedWallet, pendingTransactions, lgHandler>>

\* handleGetActiveIdentity, lines 771-798: success with identity null unless
\* the origin is connected and the wallet unlocked.
HandleGetActiveIdentity(origin) ==
    /\ Answers(IF ~IsConnected(origin) \/ ~IsUnlocked
               THEN Response("SPHERE_GET_ACTIVE_IDENTITY", origin, TRUE, {})
               ELSE Response("SPHERE_GET_ACTIVE_IDENTITY", origin, TRUE, {"identity"}))
    /\ UNCHANGED <<connectedSites, lgGranted>>

\* handleGetBalances, lines 800-827
HandleGetBalances(origin) ==
    /\ Answers(IF ~IsConnected(origin) \/ ~IsUnlocked
               THEN Response("SPHERE_GET_BALANCES", origin, FALSE, {})
               ELSE Response("SPHERE_GET_BALANCES", origin, TRUE, {"balances"}))
    /\ UNCHANGED <<connectedSites, lgGranted>>

\* handleGetNostrPublicKey, lines 920-950
HandleGetNostrPublicKey(origin) ==
    /\ Answers(IF ~IsConnected(origin) \/ ~IsUnlocked
               THEN Response("SPHERE_GET_NOSTR_PUBLIC_KEY", origin, FALSE, {})
               ELSE Response("SPHERE_GET_NOSTR_PUBLIC_KEY", origin, TRUE, {"publicKey"}))
    /\ UNCHANGED <<connectedSites, lgGranted>>

\* handleSendTokensRequest (829-877), handleSignMessageRequest (879-918) and
\* handleSignNostrEventRequest (952-991), up to their first await: a request
\* that fails one of the two tests is answered at once; behind the tests the
\* transaction is built with the requestId of the message and
\* addPendingTransaction(tx) called and awaited.
HandleTransactionRequest(type, txType, requestId, origin) ==
    /\ lgResponse = NoResponse
    /\ IF ~IsConnected(origin) \/ ~IsUnlocked
       THEN /\ lgResponse' = Response(type, origin, FALSE, {})
            /\ UNCHANGED lgHandler
       ELSE /\ BagCardinality(pendingTransactions)
                 + Cardinality({h \in LgHandlers : lgHandler[h].pc = "add"}) < MaxTx
            /\ \E h \in LgHandlers :
                 Suspends(h, "add", requestId, Response(type, origin, TRUE, {}), txType)
            /\ UNCHANGED lgResponse
    /\ UNCHANGED <<nonLegacyVars, unlockedWallet, connectedSites, pendingTransactions,
                   lgGranted>>

HandleSendTokensRequest(requestId, origin) ==
    HandleTransactionRequest("SPHERE_SEND_TOKENS", "send", requestId, origin)

HandleSignMessageRequest(requestId, origin) ==
    HandleTransactionRequest("SPHERE_SIGN_MESSAGE", "sign_message", requestId, origin)

HandleSignNostrEventRequest(requestId, origin) ==
    HandleTransactionRequest("SPHERE_SIGN_NOSTR_EVENT", "sign_nostr", requestId, origin)

\* Lines 866-869, 911-912, 984-985: the awaited addPendingTransaction(tx)
\* settles.  Fulfilled, the transaction is in storage and openPopup() is
\* called and awaited; rejected, the handler rejects and no response is
\* returned.
AddPendingSettled(h, ok) ==
    /\ lgResponse = NoResponse
    /\ lgHandler[h].pc = "add"
    /\ IF ok
       THEN /\ pendingTransactions' = pendingTransactions (+) SetToBag({Tx(h)})
            /\ lgHandler' = [lgHandler EXCEPT ![h].pc = "popup"]
       ELSE /\ Resumes(h)
            /\ UNCHANGED pendingTransactions
    /\ UNCHANGED <<nonLegacyVars, unlockedWallet, connectedSites, lgResponse, lgGranted>>

\* openPopup, lines 1155-1168, settles (a rejection of
\* chrome.action.openPopup is caught there) and the handler returns the
\* response it has been holding since its tests (746-750, 872-876, 914-917,
\* 987-990).
OpenPopupSettled(h) ==
    /\ lgResponse = NoResponse
    /\ lgHandler[h].pc = "popup"
    /\ lgResponse' = lgHandler[h].response
    /\ Resumes(h)
    /\ UNCHANGED <<nonLegacyVars, unlockedWallet, connectedSites, pendingTransactions,
                   lgGranted>>

\* handleResolveNametag (993-1032) and handleCheckNametagAvailable
\* (1034-1073), up to the await of walletManager.resolveNametag (1019, 1061):
\* behind the same two tests as the other gated handlers.
HandleNametagRequest(type, origin) ==
    /\ lgResponse = NoResponse
    /\ IF ~IsConnected(origin) \/ ~IsUnlocked
       THEN /\ lgResponse' = Response(type, origin, FALSE, {})
            /\ UNCHANGED lgHandler
       ELSE /\ \E h \in LgHandlers :
                 Suspends(h, "resolve", NoId, Response(type, origin, TRUE, {"nametag"}),
                          "none")
            /\ UNCHANGED lgResponse
    /\ UNCHANGED <<nonLegacyVars, unlockedWallet, connectedSites, pendingTransactions,
                   lgGranted>>

HandleResolveNametag(origin) == HandleNametagRequest("SPHERE_RESOLVE_NAMETAG", origin)

HandleCheckNametagAvailable(origin) ==
    HandleNametagRequest("SPHERE_CHECK_NAMETAG_AVAILABLE", origin)

\* Lines 1019-1031 and 1061-1073: resolveNametag settles; the handler
\* answers with the resolution (or the availability), or with the error.
ResolveNametagSettled(h, ok) ==
    /\ lgResponse = NoResponse
    /\ lgHandler[h].pc = "resolve"
    /\ lgResponse' = IF ok THEN lgHandler[h].response
                     ELSE Response(lgHandler[h].response.type,
                                   lgHandler[h].response.origin, FALSE, {})
    /\ Resumes(h)
    /\ UNCHANGED <<nonLegacyVars, unlockedWallet, connectedSites, pendingTransactions,
                   lgGranted>>

\* handleContentMessage, lines 558-563: the default branch answers a message
\* of any other type with a failure.
HandleUnknownType(origin) ==
    /\ Answers(Response("UNKNOWN", origin, FALSE, {}))
    /\ UNCHANGED <<connectedSites, lgGranted>>

\* The promise of handleContentMessage settles: the response leaves.
ResponseSent ==
    /\ lgResponse # NoResponse
    /\ lgResponse' = NoResponse
    /\ UNCHANGED <<nonLegacyVars, unlockedWallet, connectedSites, pendingTransactions,
                   lgHandler, lgGranted>>

\* The popup creates, imports or unlocks a wallet (lines 65, 89, 109) or
\* locks it (line 118).
SetUnlocked(unlocked) ==
    /\ lgResponse = NoResponse
    /\ unlockedWallet # unlocked
    /\ unlockedWallet' = unlocked
    /\ UNCHANGED <<nonLegacyVars, connectedSites, pendingTransactions, lgResponse,
                   lgHandler, lgGranted>>

\* handleApproveTransaction / handleRejectTransaction, lines 1078-1150:
\* removePendingTransaction(requestId) (1079, 1133) takes out of the storage
\* what it finds under the requestId.  Of several transactions stored with
\* one requestId it takes one or more.
HandleResolveTransaction(requestId, removed) ==
    /\ lgResponse = NoResponse
    /\ removed # EmptyBag
    /\ \A tx \in BagToSet(removed) : tx.requestId = requestId
    /\ pendingTransactions' = pendingTransactions (-) removed
    /\ UNCHANGED <<nonLegacyVars, unlockedWallet, connectedSites, lgResponse,
                   lgHandler, lgGranted>>

\* --------------------------------------------------------------- NostrService
\* The finally of connect(), lines 86-89, runs in the microtask that follows
\* the settling of the awaited doConnect; the callers that were handed the
\* same promise (line 78) return with it.
AttemptSettles(a) ==
    /\ atPc' = [atPc EXCEPT ![a] = "idle"]
    /\ atWaiters' = [atWaiters EXCEPT ![a] = 0]
    /\ atSeen' = [atSeen EXCEPT ![a] = NoStored]
    /\ isConnecting' = FALSE
    /\ connectPromise' = NoId

\* Line 77 fails: connect() goes on to call doConnect.
StartsAttempt == ~(isConnecting /\ connectPromise # NoId)

\* The doConnect of a connect() that was given a key hexToBytes or
\* fromPrivateKey refuses (lines 93-94, 394-396) has rejected, and the finally
\* of that connect() has not run yet.
KeyRejected == \E a \in Attempts : atPc[a] = "rejected"

\* An attempt is named by a number that names no attempt in flight and no
\* NostrClient still in use.
FreshAttempt(a) ==
    /\ atPc[a] = "idle"
    /\ a # client
    /\ a \notin nsSubscribed
    /\ \A b \in Attempts : (b < a) => (atPc[b] # "idle" \/ b = client
                                          \/ b \in nsSubscribed)

\* connect(), lines 74-83, with the synchronous head of doConnect (93-101):
\* with a key that is refused doConnect throws at line 93 or 94, before
\* keyManager and client are assigned, and the promise kept at line 82 is a
\* rejected one; otherwise doConnect sets both and awaits client.connect.
Connect(validKey) ==
    /\ nsCalls < MaxConnects
    /\ nsCalls' = nsCalls + 1
    /\ nsQuiet' = FALSE
    /\ IF isConnected
       THEN UNCHANGED <<client, keyManager, isConnecting, connectPromise, atPc, atWaiters>>
       ELSE IF ~StartsAttempt
       THEN /\ connectPromise # NoId
            /\ atWaiters' = [atWaiters EXCEPT ![connectPromise] = @ + 1]
            /\ UNCHANGED <<client, keyManager, isConnecting, connectPromise, atPc>>
       ELSE \E a \in Attempts :
              /\ FreshAttempt(a)
              /\ isConnecting' = TRUE
              /\ connectPromise' = a
              /\ IF validKey
                 THEN /\ keyManager' = TRUE
                      /\ client' = a
                      /\ atPc' = [atPc EXCEPT ![a] = "connecting"]
                 ELSE /\ atPc' = [atPc EXCEPT ![a] = "rejected"]
                      /\ UNCHANGED <<keyManager, client>>
              /\ UNCHANGED atWaiters
    /\ UNCHANGED <<nonNostrVars, isConnected, atSeen, dcPc, nsSubscribed, eventVars>>

\* connect(), lines 84-89, for a doConnect that threw on its key: the await
\* of the rejected promise throws and the finally runs.
ConnectRejected(a) ==
    /\ atPc[a] = "rejected"
    /\ AttemptSettles(a)
    /\ UNCHANGED <<nonNostrVars, client, keyManager, isConnected, dcPc, nsCalls,
                   nsQuiet, nsSubscribed, eventVars>>

\* doConnect, lines 101-106 and 110-113: client.connect(...relays) settles.
\* Fulfilled, isConnected is set and loadProcessedEvents issues its get
\* (line 318), which reads the storage as it is now.
ClientConnectSettled(a, ok) ==
    /\ ~KeyRejected
    /\ atPc[a] = "connecting"
    /\ IF ok
       THEN /\ isConnected' = TRUE
            /\ atPc' = [atPc EXCEPT ![a] = "loading"]
            /\ atSeen' = [atSeen EXCEPT ![a] = nsStored]
            /\ UNCHANGED <<atWaiters, isConnecting, connectPromise>>
       ELSE /\ AttemptSettles(a)
            /\ UNCHANGED isConnected
    /\ UNCHANGED <<nonNostrVars, client, keyManager, dcPc, nsCalls, nsQuiet,
                   nsSubscribed, eventVars>>

\* loadProcessedEvents, lines 316-329, when its get settles with what it
\* read when it was issued: nothing saved leaves the set as it is, a
\* rejection empties it.
LoadedEvents(a, ok) ==
    IF ~ok THEN {}
    ELSE IF atSeen[a] = NoStored THEN processedEventIds
    ELSE atSeen[a]

\* doConnect, lines 106-113: loadProcessedEvents has settled; then
\* this.keyManager.getPublicKeyHex() throws on null, and subscribeToEvents
\* (232-249) returns at once without a client.
LoadProcessedEventsSettled(a, ok) ==
    /\ ~KeyRejected
    /\ atPc[a] = "loading"
    /\ processedEventIds' = LoadedEvents(a, ok)
    /\ nsSubscribed' = IF keyManager /\ client # NoId
                       THEN nsSubscribed \cup {client} ELSE nsSubscribed
    /\ AttemptSettles(a)
    /\ UNCHANGED <<nonNostrVars, client, keyManager, isConnected, dcPc, nsCalls,
                   nsQuiet, nsStored, evPc, evId, nsSuccess>>

\* disconnect(), lines 119-134, up to the await of line 122, or to its end
\* when there is no client.
Disconnect ==
    /\ dcPc = "idle"
    /\ IF client # NoId
       THEN /\ dcPc' = "awaiting"
            /\ nsSubscribed' = nsSubscribed \ {client}
            /\ UNCHANGED <<keyManager, isConnected, isConnecting, connectPromise, nsQuiet>>
       ELSE /\ keyManager' = FALSE
            /\ isConnected' = FALSE
            /\ isConnecting' = FALSE
            /\ connectPromise' = NoId
            /\ nsQuiet' = TRUE
            /\ UNCHANGED <<dcPc, nsSubscribed>>
    /\ UNCHANGED <<nonNostrVars, client, atPc, atWaiters, atSeen, nsCalls, eventVars>>

\* disconnect(), lines 123-133: client.disconnect() has settled either way.
DisconnectSettled ==
    /\ ~KeyRejected
    /\ dcPc = "awaiting"
    /\ dcPc' = "idle"
    /\ client' = NoId
    /\ keyManager' = FALSE
    /\ isConnected' = FALSE
    /\ isConnecting' = FALSE
    /\ connectPromise' = NoId
    /\ nsQuiet' = TRUE
    /\ UNCHANGED <<nonNostrVars, atPc, atWaiters, atSeen, nsCalls, nsSubscribed,
                   eventVars>>

\* handleEvent, lines 251-268, with handleTokenTransfer up to the call of the
\* registered handler (277-307): a subscription delivers event e.
SkipsEvent(e, fresh) == e \in processedEventIds \/ ~fresh

HandleEvent(d, e, fresh) ==
    /\ ~KeyRejected
    /\ nsSubscribed # {}
    /\ evPc[d] = "idle"
    /\ IF SkipsEvent(e, fresh) \/ ~keyManager
       THEN UNCHANGED <<evPc, evId>>
       ELSE /\ evPc' = [evPc EXCEPT ![d] = "handling"]
            /\ evId' = [evId EXCEPT ![d] = e]
    /\ UNCHANGED <<nonNostrVars, connVars, processedEventIds, nsStored, nsSuccess>>

\* handleEvent, lines 268-274: the handler has answered; on success the event
\* is marked (346-353) and the set saved (331-344; a failed set is logged).
HandlerSettled(d, success, saved) ==
    /\ evPc[d] = "handling"
    /\ evPc' = [evPc EXCEPT ![d] = "idle"]
    /\ evId' = [evId EXCEPT ![d] = NoId]
    /\ IF success
       THEN /\ nsSuccess' = [nsSuccess EXCEPT ![evId[d]] = Min(@ + 1, MaxSuccess)]
            /\ processedEventIds' = processedEventIds \cup {evId[d]}
            /\ nsStored' = IF saved THEN processedEventIds \cup {evId[d]} ELSE nsStored
       ELSE UNCHANGED <<nsSuccess, processedEventIds, nsStored>>
    /\ UNCHANGED <<nonNostrVars, connVars>>

\* ------------------------------------------------------ content-script relay
startsWith(type, piece) == Len(type) > 0 /\ type[1] = piece
endsWith(type, piece) == Len(type) > 0 /\ type[Len(type)] = piece
includes(type, piece) == \E k \in 1..Len(type) : type[k] = piece

isSphereRequest(type) ==
    startsWith(type, MESSAGE_PREFIX) /\ ~endsWith(type, "_RESPONSE")
        /\ ~includes(type, "_RESULT")

isSphereResponse(type) ==
    startsWith(type, MESSAGE_PREFIX)
        /\ (endsWith(type, "_RESPONSE") \/ includes(type, "_RESULT"))

\* The SDK's test of the envelope shape: a property of the message.
isExtensionConnectEnvelope(m) == m.envelope

\* lines 31-33: the three early returns of the to-host listener
ToHostFilter_AnySource(m) ==
    isExtensionConnectEnvelope(m) /\ m.type = EXT_MSG_TO_HOST
ToHostFilter(m) ==
    m.source = "window" /\ isExtensionConnectEnvelope(m) /\ m.type = EXT_MSG_TO_HOST

\* lines 43-44: the two early returns of the to-client listener
ToClientFilter(m) == isExtensionConnectEnvelope(m) /\ m.type = EXT_MSG_TO_CLIENT

\* lines 56-61: the legacy listener on window
LegacyRequestFilter(m) ==
    m.source = "window" /\ m.type # NoType /\ isSphereRequest(m.type)

\* line 101: the legacy listener on chrome.runtime.onMessage
LegacyResponseFilter(m) == m.type # NoType /\ isSphereResponse(m.type)

NextWinEvent == Cardinality({e \in WinEventIds : winEvents[e] # NoMsg}) + 1
NextBgMsg == Cardinality({b \in BgMsgIds : bgEvents[b] # NoMsg}) + 1

\* window.postMessage(m, '*') for each m of msgs: a message event on window.
Dispatched(msgs) ==
    /\ NextWinEvent + Len(msgs) - 1 <= MaxWinEvents
    /\ winEvents' = [e \in WinEventIds |->
                       IF e >= NextWinEvent /\ e < NextWinEvent + Len(msgs)
                       THEN msgs[e - NextWinEvent + 1] ELSE winEvents[e]]
    /\ winQueue' = winQueue \o [k \in 1..Len(msgs) |-> NextWinEvent + k - 1]

\* The page, or another window, posts a message to the page's window.
PagePostMessage(m) ==
    /\ Dispatched(<<m>>)
    /\ UNCHANGED <<walletVars, popupVars, sideVars, bgEvents, bgQueue, connectSend, legacySend,
                   connectPost, legacyPost>>

\* The message event reaches the two listeners on window, in the order of
\* their registration; each sends to the background or returns.
WindowMessage ==
    /\ winQueue # <<>>
    /\ LET e == Head(winQueue)
           m == winEvents[e]
       IN  /\ connectSend' = [connectSend EXCEPT
                                ![e] = IF ToHostFilter(m) THEN "inflight" ELSE "none"]
           /\ legacySend' = [legacySend EXCEPT
                               ![e] = IF LegacyRequestFilter(m) THEN "inflight" ELSE "none"]
    /\ winQueue' = Tail(winQueue)
    /\ UNCHANGED <<walletVars, popupVars, sideVars, winEvents, bgEvents, bgQueue, connectPost, legacyPost>>

\* lines 36-38: the promise of the to-host sendMessage settles; a rejection
\* (the background is not ready) ends in the empty catch.
ForwardSettled(e, ok) ==
    /\ connectSend[e] = "inflight"
    /\ connectSend' = [connectSend EXCEPT ![e] = IF ok THEN "delivered" ELSE "dropped"]
    /\ UNCHANGED <<walletVars, popupVars, sideVars, winEvents, winQueue, bgEvents, bgQueue, legacySend,
                   connectPost, legacyPost>>

\* lines 65-93: the awaited legacy sendMessage settles: a pending response is
\* not forwarded, another response or an error is posted to the page.
LegacyForwardSettled(e, outcome) ==
    /\ legacySend[e] = "inflight"
    /\ legacySend' = [legacySend EXCEPT ![e] = outcome]
    /\ IF outcome = "pending"
       THEN UNCHANGED <<winEvents, winQueue>>
       ELSE Dispatched(<<[source |-> "window", envelope |-> FALSE,
                          type |-> Append(winEvents[e].type, "_RESPONSE")]>>)
    /\ UNCHANGED <<walletVars, popupVars, sideVars, bgEvents, bgQueue, connectSend, connectPost, legacyPost>>

\* The background sends a message to the tab.
BackgroundSends(m) ==
    /\ NextBgMsg <= MaxBgMsgs
    /\ bgEvents' = [bgEvents EXCEPT ![NextBgMsg] = m]
    /\ bgQueue' = Append(bgQueue, NextBgMsg)
    /\ UNCHANGED <<walletVars, popupVars, sideVars, winEvents, winQueue, connectSend, legacySend,
                   connectPost, legacyPost>>

\* The runtime message reaches the two chrome.runtime.onMessage listeners;
\* each posts it to the page or returns.
RuntimeMessage ==
    /\ bgQueue # <<>>
    /\ LET b == Head(bgQueue)
           m == bgEvents[b]
           posted == [source |-> "window", envelope |-> m.envelope, type |-> m.type]
       IN  /\ connectPost' = [connectPost EXCEPT ![b] = ToClientFilter(m)]
           /\ legacyPost' = [legacyPost EXCEPT ![b] = LegacyResponseFilter(m)]
           /\ Dispatched((IF ToClientFilter(m) THEN <<posted>> ELSE <<>>)
                         \o (IF LegacyResponseFilter(m) THEN <<posted>> ELSE <<>>))
    /\ bgQueue' = Tail(bgQueue)
    /\ UNCHANGED <<walletVars, popupVars, sideVars, bgEvents, connectSend, legacySend>>

\* ---------------------------------------------------------------------- inputs
RequestedPermissions == {Perms}
GrantedPermissions == {{"balance:read"}, Perms}

Lifecycle ==
    \/ \E sphere \in BOOLEAN : InitConnectHost(sphere)
    \/ DestroyConnectHost

\* The handling of connection requests, with the saves it starts.
NextApprovals ==
    \/ Lifecycle
    \/ \E c \in Calls, d \in Dapps, p \in RequestedPermissions, s \in BOOLEAN :
          OnConnectionRequest(c, d, p, s)
    \/ \E c \in Calls : ConnGetResolved(c)
    \/ \E c \in Calls : ConnSetSettled(c)
    \/ \E c \in Calls : ConnPopupResolved(c)
    \/ \E u \in Uuids : ApprovalTimeout(u)
    \/ \E id \in Uuids, a \in BOOLEAN, g \in GrantedPermissions :
          ResolveConnectApproval(id, a, g)
    \/ \E c \in Calls : OnConnectionRequestReturned(c)
    \/ \E v \in Saves : SaveGetResolved(v)
    \/ \E v \in Saves : SaveSetSettled(v)
    \/ \E v \in Saves : SaveErrorReported(v)
    \/ Tick

SpecApprovals == Init /\ [][NextApprovals]_vars

\* The removal of approved origins.
NextRevokes ==
    \/ \E r \in Revokes, o \in Origins : RevokeConnectedSite(r, o)
    \/ \E r \in Revokes, d \in Dapps : OnDisconnect(r, d)
    \/ \E r \in Revokes : RevokeGetResolved(r)
    \/ \E r \in Revokes : RevokeSetSettled(r)

\* The connection side: approvals and the Origin Approval Store.
Next == NextApprovals \/ NextRevokes

Spec == Init /\ [][Next]_vars

\* The intent side.
NextIntent ==
    \/ Lifecycle
    \/ \E i \in Intents, q \in IntentRequests : OnIntent(i, q)
    \/ \E i \in Intents : IntentPopupResolved(i)
    \/ \E u \in Uuids : IntentTimeout(u)
    \/ \E id \in Uuids, x \in IntentResults : ResolveConnectIntent(id, x)
    \/ \E i \in Intents : OnIntentReturned(i)
    \/ Tick

SpecIntent == Init /\ [][NextIntent]_vars

\* Both pending slots together.
NextAll == NextApprovals \/ NextIntent

SpecAll == Init /\ [][NextAll]_vars

\* The content script.
NextRelay ==
    \/ \E m \in WinMsgs : PagePostMessage(m)
    \/ WindowMessage
    \/ \E e \in WinEventIds, ok \in BOOLEAN : ForwardSettled(e, ok)
    \/ \E e \in WinEventIds, outcome \in {"answered", "pending", "failed"} :
          LegacyForwardSettled(e, outcome)
    \/ \E m \in BgMsgs : BackgroundSends(m)
    \/ RuntimeMessage

SpecRelay == Init /\ [][NextRelay]_vars

\* Both sides and the popup's polling.
NextPeek ==
    \/ NextAll
    \/ GetConnectApproval
    \/ GetConnectIntent
    \/ PeekReturned

SpecPeek == Init /\ [][NextPeek]_vars

\* The approval modal of the popup.
NextModal ==
    \/ OpenModal
    \/ PollInterval
    \/ \E response \in ModalApprovals \cup {NoPending} : ModalPoll(response)
    \/ ModalPollFailed
    \/ \E perm \in ModalPerms : TogglePermission(perm)
    \/ HandleApprove
    \/ HandleReject
    \/ \E ok \in BOOLEAN : ResolveSettled(ok)

SpecModal == Init /\ [][NextModal]_vars

\* The legacy SPHERE_* protocol.
NextLegacy ==
    \/ \E o \in Origins : HandleConnect(o)
    \/ \E o \in Origins : HandleDisconnect(o)
    \/ \E o \in Origins : HandleGetActiveIdentity(o)
    \/ \E o \in Origins : HandleGetBalances(o)
    \/ \E o \in Origins : HandleGetNostrPublicKey(o)
    \/ \E r \in LgRequests, o \in Origins : HandleSendTokensRequest(r, o)
    \/ \E r \in LgRequests, o \in Origins : HandleSignMessageRequest(r, o)
    \/ \E r \in LgRequests, o \in Origins : HandleSignNostrEventRequest(r, o)
    \/ \E o \in Origins : HandleResolveNametag(o)
    \/ \E o \in Origins : HandleCheckNametagAvailable(o)
    \/ \E o \in Origins : HandleUnknownType(o)
    \/ \E h \in LgHandlers, ok \in BOOLEAN : AddPendingSettled(h, ok)
    \/ \E h \in LgHandlers : OpenPopupSettled(h)
    \/ \E h \in LgHandlers, ok \in BOOLEAN : ResolveNametagSettled(h, ok)
    \/ ResponseSent
    \/ \E unlocked \in BOOLEAN : SetUnlocked(unlocked)
    \/ \E r \in LgRequests, removed \in SubBag(pendingTransactions) :
          HandleResolveTransaction(r, removed)

SpecLegacy == Init /\ [][NextLegacy]_vars

\* The NOSTR service.
NextNostr ==
    \/ \E validKey \in BOOLEAN : Connect(validKey)
    \/ \E a \in Attempts : ConnectRejected(a)
    \/ \E a \in Attempts, ok \in BOOLEAN : ClientConnectSettled(a, ok)
    \/ \E a \in Attempts, ok \in BOOLEAN : LoadProcessedEventsSettled(a, ok)
    \/ Disconnect
    \/ DisconnectSettled
    \/ \E d \in Deliveries, e \in EventIds, fresh \in BOOLEAN : HandleEvent(d, e, fresh)
    \/ \E d \in Deliveries, success \in BOOLEAN, saved \in BOOLEAN :
          HandlerSettled(d, success, saved)

SpecNostr == Init /\ [][NextNostr]_vars

TypeOK ==
    /\ connectHost \in BOOLEAN
    /\ now \in 0..MaxNow
    /\ nextUuid \in 1..(MaxUuid + 1)
    /\ \A o \in Origins : store[o] = NoEntry \/ store[o] \in Entries
    /\ \A c \in Calls : crPc[c] \in {"idle", "get", "set", "refused", "popup", "waiting", "done"}
    /\ \A e \in WinEventIds : winEvents[e] = NoMsg \/ winEvents[e] \in WinMsgs
    /\ \A b \in BgMsgIds : bgEvents[b] = NoMsg \/ bgEvents[b] \in BgMsgs
    /\ \A e \in WinEventIds :
          /\ connectSend[e] \in {"none", "inflight", "delivered", "dropped"}
          /\ legacySend[e] \in {"none", "inflight", "answered", "pending", "failed"}

\* The event loop takes its tasks in FIFO order: a continuation whose await has
\* resolved and a timer that is due are run however many other events arrive
\* (strong fairness: a microtask in between disables them for a moment), and
\* time passes.  Requests, explicit resolutions and lifecycle calls are the
\* environment's and may never come.
Fairness ==
    /\ \A c \in Calls : SF_vars(ConnGetResolved(c))
    /\ \A c \in Calls : SF_vars(ConnSetSettled(c))
    /\ \A c \in Calls : SF_vars(ConnPopupResolved(c))
    /\ \A c \in Calls : WF_vars(OnConnectionRequestReturned(c))
    /\ \A u \in Uuids : SF_vars(ApprovalTimeout(u))
    /\ \A v \in Saves : SF_vars(SaveGetResolved(v))
    /\ \A v \in Saves : SF_vars(SaveSetSettled(v))
    /\ \A v \in Saves : WF_vars(SaveErrorReported(v))
    /\ SF_vars(Tick)

\* The handling of connection requests under that scheduling; no revoke is
\* called.
FairSpec == SpecApprovals /\ Fairness

\* ============================================================== claims ====
\* The handler of call c, an explicit request for a parsable origin with no
\* Store entry, reaches the first-time branch (spec 4.3 step 4) in this step.
ArrivesExplicit(c) ==
    /\ crPc[c] = "get"
    /\ crPc'[c] # "get"
    /\ ~crSilent[c]
    /\ ~IsApproved(crApproved[c], OriginOf(crDapp[c]))

\* C1: an explicit request for an unapproved origin that arrives while a
\* PendingApproval is outstanding is rejected at once, and the pending item
\* keeps its identifier, its resolver and its deadline; in particular the
\* slot never passes from one item to another.
C1_SingleSlotCapacity ==
    /\ [][\A c \in Calls :
            (pendingApproval # NoPending /\ ArrivesExplicit(c))
            => /\ crPc'[c] = "done"
               /\ crResult'[c] = Rejected
               /\ pendingApproval' = pendingApproval
               /\ approvalTimer' = approvalTimer]_vars
    /\ [][(pendingApproval # NoPending /\ pendingApproval' # NoPending)
            => pendingApproval' = pendingApproval]_vars

\* The timer armed with identifier u fires in this step.
TimerFires(u) == approvalTimer[u] = 0 /\ approvalTimer'[u] = NoTimer

\* Every waiting caller is the one whose resolver its slot holds.
WaitersAreSlotOwners ==
    /\ \A c \in Calls : crPc[c] = "waiting"
          => (pendingApproval # NoPending /\ pendingApproval.resolve = c)
    /\ \A i \in Intents : inPc[i] = "waiting"
          => (pendingIntent # NoPending /\ pendingIntent.resolve = i)

\* C2: the timer of request R resolves and clears the slot only if the slot
\* still holds R's identifier; when R was already resolved it never rejects
\* a later pending item whose own 120 s have not elapsed.
C2_TimerActsOnOwnRequest ==
    [][\A u \in Uuids :
         (TimerFires(u) /\ WaitersAreSlotOwners)
         => IF ApprovalIdMatches(u)
            THEN /\ pendingApproval' = NoPending
                 /\ crResult'[pendingApproval.resolve] = Rejected
            ELSE (pendingApproval # NoPending /\ approvalTimer[pendingApproval.id] > 0)
                 => UNCHANGED <<pendingApproval, crPc, crResult>>]_vars

\* C3: every invocation of onConnectionRequest is eventually answered.
C3_EveryCallerAnswered ==
    \A c \in Calls :
        (crPc[c] \in {"get", "set", "refused", "popup", "waiting"}) ~> (crPc[c] = "done")

\* The awaited get of call c resolves in this step and the set of its touch
\* writes the store.
TouchWrites(c) == crPc[c] = "get" /\ crPc'[c] = "set" /\ store' # store

\* C4: mutations of one origin are serialized: the write of a touch of O acts
\* on the store as it is then, so it changes lastSeenAt of O's entry only and
\* never writes back an entry that a revoke has removed since the touch began.
C4_NoLostUpdate ==
    [][\A c \in Calls :
         TouchWrites(c)
         => LET o == OriginOf(crDapp[c]) IN
            /\ store[o] # NoEntry
            /\ store'[o] = [store[o] EXCEPT !.lastSeenAt = now]]_vars

\* C5: while the Host is Inactive both slots are empty.
C5_NoPendingOutlivesHost ==
    ~connectHost => (pendingApproval = NoPending /\ pendingIntent = NoPending)

\* C6: at most one approval and at most one intent awaits resolution, and
\* every waiting caller is the one whose resolver the slot holds.
C6_OnePendingPerSlot ==
    /\ Cardinality({c \in Calls : crPc[c] = "waiting"}) <= 1
    /\ Cardinality({i \in Intents : inPc[i] = "waiting"}) <= 1
    /\ WaitersAreSlotOwners

\* C7: the permissions of every Store entry contain identity-read.
C7_IdentityScope ==
    \A o \in Origins : store[o] # NoEntry => IdentityRead \in store[o].permissions

\* C8: a silent request for an origin with no Store entry returns the
\* rejection without UI escalation, without a PendingApproval of its own and
\* without changing the Store or the slot, in each of its steps.
C8_SilentFastFail ==
    [][\A c \in Calls :
         LET o == OriginOf(crDapp'[c]) IN
         /\ (crPc[c] = "idle" /\ crPc'[c] = "get" /\ crSilent'[c] /\ store[o] = NoEntry)
            => /\ crApproved'[c][o] = NoEntry
               /\ crPopups'[c] = 0
               /\ UNCHANGED <<store, pendingApproval>>
         /\ (crPc[c] = "get" /\ crPc'[c] # "get" /\ crSilent[c]
               /\ ~IsApproved(crApproved[c], o))
            => /\ crPc'[c] = "done"
               /\ crResult'[c] = Rejected
               /\ crPopups'[c] = 0
               /\ UNCHANGED <<store, pendingApproval, approvalTimer, nextUuid>>]_vars

\* A silent request for a parsable origin with no entry has returned.
C8_Witness ==
    \E c \in Calls :
        /\ crPc[c] = "done"
        /\ crSilent[c]
        /\ OriginOf(crDapp[c]) # NoOrigin
        /\ store[OriginOf(crDapp[c])] = NoEntry
        /\ crResult[c] = Rejected
        /\ crPopups[c] = 0

\* The awaited get of call c resolves in this step with an entry for its
\* origin: the set of the touch is issued.
FastPathStep(c) ==
    crPc[c] = "get" /\ crPc'[c] # "get" /\ IsApproved(crApproved[c], OriginOf(crDapp[c]))

\* The awaited set of the touch of call c settles in this step.
FastPathSettles(c) == crPc[c] \in SetPcs /\ crPc'[c] \notin SetPcs

\* C9: a request for an origin with a Store entry returns approved with the
\* stored permissions, sets lastSeenAt to a value >= the prior one and leaves
\* connectedAt, permissions and dapp of the entry as they were.
C9_ApprovedFastPath ==
    [][\A c \in Calls :
         LET o == OriginOf(crDapp[c])
             prior == crApproved[c][o]
         IN  /\ FastPathStep(c)
                => /\ store'[o] # NoEntry
                   /\ store'[o].lastSeenAt >= prior.lastSeenAt
                   /\ store'[o].connectedAt = prior.connectedAt
                   /\ store'[o].permissions = prior.permissions
                   /\ store'[o].dapp = prior.dapp
             /\ FastPathSettles(c)
                => /\ crPc'[c] = "done"
                   /\ crResult'[c] = [approved |-> TRUE,
                                      grantedPermissions |-> prior.permissions]]_vars

\* C10: a request for an origin that has a Store entry never triggers UI
\* escalation and never comes to occupy the approval slot.
C10_NoPromptWhileApproved ==
    [][\A c \in Calls :
         (FastPathStep(c) \/ FastPathSettles(c))
         => (crPc'[c] # "popup" /\ crPopups'[c] = 0)]_vars

\* The get of revoke task r resolves in this step and its set is issued.
RevokeWrites(r) == rvPc[r] = "get" /\ rvPc'[r] \in SetPcs

\* The awaited set of revoke task r settles in this step: revokeConnectedSite,
\* and with it the onDisconnect that awaits it, completes.
RevokeCompletes(r) == rvPc[r] \in SetPcs /\ rvPc'[r] = "idle"

\* The get of save task v, persisting an approval of origin o, resolves in
\* this step and its set writes the Store.
ApprovalWritten(v, o) ==
    svPc[v] = "get" /\ svPc'[v] = "set" /\ OriginOf(svDapp[v]) = o

\* The awaited set of save task v, persisting an approval of origin o, is
\* fulfilled in this step: saveApprovedOrigin completes.
ApprovalSaved(v, o) ==
    svPc[v] = "set" /\ svPc'[v] = "idle" /\ OriginOf(svDapp[v]) = o

\* C11: when the revoke behind onDisconnect for O completes, the Store has no
\* entry for O unless its write failed and left the Store as it was; and an
\* origin without an entry gets one again only through a later approval of
\* that origin, so a following silent request is answered from a Store
\* without O.
C11_DisconnectRevokes ==
    /\ [][\A r \in Revokes :
            RevokeCompletes(r)
            => (store'[rvOrigin[r]] = NoEntry \/ rvPc[r] = "refused")]_vars
    /\ [][\A o \in Origins :
            (store[o] = NoEntry /\ store'[o] # NoEntry)
            => \E v \in Saves : ApprovalWritten(v, o)]_vars

\* Invocation c created the pending item with identifier u and still awaits
\* its resolution.
AwaitsApproval(c, u) == crPc[c] = "waiting" /\ crId[c] = u

\* C12: when the 120 s timer of identifier u fires and the request that
\* created u has received no resolution, its caller gets the rejection and
\* the slot is left empty; and once the timer of u has fired the slot never
\* holds u, so a late resolveConnectApproval(u) finds no match.
C12_TimeoutDefault ==
    /\ [][\A u \in Uuids : \A c \in Calls :
            (TimerFires(u) /\ AwaitsApproval(c, u))
            => /\ crPc'[c] = "done"
               /\ crResult'[c] = Rejected
               /\ pendingApproval' = NoPending
               /\ store' = store]_vars
    /\ [](\A u \in Uuids :
            (u < nextUuid /\ approvalTimer[u] = NoTimer) => ~ApprovalIdMatches(u))

\* onIntent is called for invocation i in this step.
IntentArrives(i) == inPc[i] = "idle" /\ inPc'[i] # "idle"

\* C13: an onIntent call made while a PendingIntent is outstanding is
\* answered in that step with an error and is not queued, and the outstanding
\* item keeps its identifier, request and resolver: the slot never passes
\* from one item to another.
C13_IntentSingleSlot ==
    /\ [][\A i \in Intents :
            (pendingIntent # NoPending /\ IntentArrives(i))
            => /\ inPc'[i] = "done"
               /\ "error" \in DOMAIN inResult'[i]
               /\ pendingIntent' = pendingIntent
               /\ intentTimer' = intentTimer]_vars
    /\ [][(pendingIntent # NoPending /\ pendingIntent' # NoPending)
            => pendingIntent' = pendingIntent]_vars

\* The intent timer armed with identifier u fires in this step.
IntentTimerFires(u) == intentTimer[u] = 0 /\ intentTimer'[u] = NoTimer

\* Invocation i created the pending intent with identifier u and still awaits
\* its resolution.
AwaitsIntent(i, u) == inPc[i] = "waiting" /\ inId[i] = u

\* C14: the 300 s timer of intent u resolves (with the user-rejected error)
\* and clears the slot only if the slot still holds u; when the intent of u
\* was already resolved, its timer leaves a later PendingIntent whose own
\* 300 s have not elapsed, its caller and the slot as they are.
C14_IntentTimerDiscipline ==
    [][\A u \in Uuids :
         (/\ IntentTimerFires(u)
          /\ \A i \in Intents : ~AwaitsIntent(i, u)
          /\ pendingIntent # NoPending
          /\ intentTimer[pendingIntent.id] > 0)
         => UNCHANGED <<pendingIntent, inPc, inResult>>]_vars

\* C15: destroyConnectHost hands the rejection to the waiter of an existing
\* PendingApproval and the user-rejected error to the waiter of an existing
\* PendingIntent, and right after it both slots are empty and the Host is
\* Inactive.
C15_DestroyForceRejects ==
    [][DestroyConnectHost
       => /\ pendingApproval # NoPending
             => /\ crPc'[pendingApproval.resolve] = "done"
                /\ crResult'[pendingApproval.resolve] = Rejected
          /\ pendingIntent # NoPending
             => /\ inPc'[pendingIntent.resolve] = "done"
                /\ inResult'[pendingIntent.resolve] = UserRejected
          /\ pendingApproval' = NoPending
          /\ pendingIntent' = NoPending
          /\ ~connectHost']_vars

\* A destroy has just rejected a waiting connection request and a waiting
\* intent together.
C15_Witness ==
    /\ ~connectHost
    /\ pendingApproval = NoPending
    /\ pendingIntent = NoPending
    /\ \E c \in Calls : crPc[c] = "done" /\ crId[c] # NoId /\ crResult[c] = Rejected
    /\ \E i \in Intents : inPc[i] = "done" /\ inId[i] # NoId /\ inResult[i] = UserRejected

\* C16: destroyConnectHost called while the Host is Inactive changes nothing,
\* and no initConnectHost / destroyConnectHost call changes the Store.
C16_IdempotentTeardown ==
    /\ [][(DestroyConnectHost /\ ~connectHost) => UNCHANGED vars]_vars
    /\ [][Lifecycle => store' = store]_vars

\* C17: initConnectHost first rejects what the slots hold, as a destroy does;
\* after it both slots are empty and the Host is Active exactly if the wallet
\* manager returned a sphere instance.
C17_InitLifecycle ==
    [][\A sphere \in BOOLEAN :
         InitConnectHost(sphere)
         => /\ pendingApproval # NoPending
               => /\ crPc'[pendingApproval.resolve] = "done"
                  /\ crResult'[pendingApproval.resolve] = Rejected
            /\ pendingIntent # NoPending
               => /\ inPc'[pendingIntent.resolve] = "done"
                  /\ inResult'[pendingIntent.resolve] = UserRejected
            /\ pendingApproval' = NoPending
            /\ pendingIntent' = NoPending
            /\ connectHost' = sphere]_vars

\* An initConnectHost with a sphere instance has just rejected a waiting
\* connection request and a waiting intent: the Host is Active again.
C17_Witness ==
    /\ connectHost
    /\ pendingApproval = NoPending
    /\ pendingIntent = NoPending
    /\ \E c \in Calls : crPc[c] = "done" /\ crId[c] # NoId /\ crResult[c] = Rejected
    /\ \E i \in Intents : inPc[i] = "done" /\ inId[i] # NoId /\ inResult[i] = UserRejected

\* C18: resolveConnectApproval(id, ...) changes nothing (no resolver invoked,
\* slot and Store as they were: it returns false) when the slot is empty or
\* holds another identifier; when the slot holds id, the waiter receives just
\* the given decision, the slot is left empty and the Store is not written by
\* the call itself.
C18_StaleResolutionNoOp ==
    [][\A id \in Uuids, a \in BOOLEAN, g \in GrantedPermissions :
         ResolveConnectApproval(id, a, g)
         => IF pendingApproval # NoPending /\ pendingApproval.id = id
            THEN /\ crPc'[pendingApproval.resolve] = "done"
                 /\ crResult'[pendingApproval.resolve] =
                        [approved |-> a, grantedPermissions |-> g]
                 /\ \A c \in Calls : c # pendingApproval.resolve
                       => (crPc'[c] = crPc[c] /\ crResult'[c] = crResult[c])
                 /\ pendingApproval' = NoPending
                 /\ store' = store
            ELSE UNCHANGED vars]_vars

\* The slot held identifier 2 (a resolution with identifier 1 is stale by
\* then) and resolveConnectApproval(2, true, ...) has just handed the approval
\* to its waiter.
C18_Witness ==
    /\ pendingApproval = NoPending
    /\ \E c \in Calls :
          /\ crPc[c] = "done"
          /\ crId[c] = 2
          /\ crResult[c] # NoResult
          /\ crResult[c].approved

\* The resolver of the pending item of invocation c / i is invoked in this step.
ApprovalResolved(c) == crPc[c] = "waiting" /\ crPc'[c] = "done"
IntentResolved(i) == inPc[i] = "waiting" /\ inPc'[i] = "done"

\* C19: a resolver is invoked only through the slot that holds its
\* identifier, which is cleared in the same step; a timer that fires resolves
\* the item it was armed for and no other; and every item that awaits
\* resolution still has a source that will resolve it (its timer is armed),
\* so that each waiter gets exactly one outcome.
C19_ExactlyOnceResolution ==
    /\ [][/\ \A c \in Calls : ApprovalResolved(c)
                => (ApprovalIdMatches(crId[c]) /\ pendingApproval' = NoPending)
          /\ \A i \in Intents : IntentResolved(i)
                => (IntentIdMatches(inId[i]) /\ pendingIntent' = NoPending)]_vars
    /\ [][\A u \in Uuids :
            /\ TimerFires(u) => \A c \in Calls : ApprovalResolved(c) => crId[c] = u
            /\ IntentTimerFires(u)
                  => \A i \in Intents : IntentResolved(i) => inId[i] = u]_vars
    /\ [](/\ \A c \in Calls : crPc[c] = "waiting" => approvalTimer[crId[c]] # NoTimer
          /\ \A i \in Intents : inPc[i] = "waiting" => intentTimer[inId[i]] # NoTimer)

\* C20: when an explicit request of a parsable origin is resolved with
\* approved = true and the granted set G, its caller receives approved with
\* G and the save of the approval is started; and when that save has written
\* the Store, the entry of the origin holds G together with identity-read and
\* a connectedAt equal to its lastSeenAt.
C20_FirstApprovalEndToEnd ==
    /\ [][\A c \in Calls :
            (/\ ApprovalResolved(c)
             /\ crResult'[c].approved
             /\ OriginOf(crDapp[c]) # NoOrigin)
            => /\ crResult'[c].grantedPermissions \in GrantedPermissions
               /\ \E v \in Saves :
                    /\ svPc[v] = "idle" /\ svPc'[v] = "get"
                    /\ svDapp'[v] = crDapp[c]
                    /\ svPerms'[v] \cup {IdentityRead}
                         = crResult'[c].grantedPermissions \cup {IdentityRead}]_vars
    /\ [][\A v \in Saves : \A o \in Origins :
            ApprovalWritten(v, o)
            => /\ store'[o] # NoEntry
               /\ store'[o].permissions = svPerms[v] \cup {IdentityRead}
               /\ store'[o].connectedAt = store'[o].lastSeenAt
               /\ store'[o].dapp = svDapp[v]]_vars

\* C21: as long as an origin keeps its Store entry, the connectedAt of the
\* entry does not change, whatever is written over it.
C21_ConnectedAtWriteOnce ==
    [][\A o \in Origins :
         (store[o] # NoEntry /\ store'[o] # NoEntry)
         => store'[o].connectedAt = store[o].connectedAt]_vars

\* The get of save task v resolves in this step and its set is issued.
SaveWrites(v) == svPc[v] = "get" /\ svPc'[v] # "get"

\* The awaited set of save task v, and with it the promise of
\* saveApprovedOrigin, settles in this step.
SaveSettles(v) == svPc[v] \in SetPcs /\ svPc'[v] \notin SetPcs

\* C22: a save whose write fails leaves the Store as it was, takes nothing
\* back from the caller, who was answered when the approval was resolved, and
\* leaves the slot alone; its rejection is handed to the error channel and
\* nowhere else.  A save settles either written or reported.
C22_SaveFailureNotRetracted ==
    /\ [][\A v \in Saves :
            /\ SaveWrites(v)
               => \/ /\ svPc'[v] = "set"
                     /\ store' = WithSaved(svCurrent[v], OriginOf(svDapp[v]),
                                           svDapp[v], svPerms[v], now, now')
                  \/ /\ svPc'[v] = "refused"
                     /\ store' = store
            /\ SaveSettles(v)
               => /\ svPc'[v] = (IF svPc[v] = "set" THEN "idle" ELSE "failed")
                  /\ store' = store]_vars
    /\ [][\A v \in Saves :
            (SaveWrites(v) \/ SaveSettles(v) \/ svPc[v] = "failed")
            => UNCHANGED <<pendingApproval, pendingIntent, connectHost, crPc,
                           crResult>>]_vars
    /\ [][\A c \in Calls :
            (ApprovalResolved(c) /\ crResult'[c].approved)
            => /\ pendingApproval' = NoPending
               /\ crResult'[c].grantedPermissions \in GrantedPermissions]_vars

\* The write of a save failed after its approval was resolved: the origin
\* has no entry, the slot is empty and the rejection is about to be reported.
C22_Witness ==
    \E v \in Saves :
        /\ svPc[v] = "failed"
        /\ OriginOf(svDapp[v]) # NoOrigin
        /\ store[OriginOf(svDapp[v])] = NoEntry
        /\ pendingApproval = NoPending

\* onConnectionRequest is called for invocation c in this step.
RequestArrives(c) == crPc[c] = "idle" /\ crPc'[c] # "idle"

\* C23: a request whose url does not parse reads no Store entry as a match:
\* silent, it returns the rejection at once with no UI escalation; explicit,
\* it goes to the first-time path (one UI escalation, then a pending item).
\* It is answered approved only by an explicit resolution, and neither the
\* request nor its resolution creates or changes a Store entry.
C23_MalformedOrigin ==
    /\ [][\A c \in Calls :
            (RequestArrives(c) /\ crDapp'[c] = "bad")
            => /\ IF crSilent'[c]
                  THEN crPc'[c] = "done" /\ crResult'[c] = Rejected /\ crPopups'[c] = 0
                  ELSE crPc'[c] = "popup" /\ crPopups'[c] = 1
               /\ UNCHANGED <<store, slotVars, svVars>>]_vars
    /\ [][\A c \in Calls :
            (crDapp[c] = "bad" /\ crPc[c] # "done" /\ crPc'[c] = "done")
            => /\ crResult'[c].approved => ApprovalResolved(c)
               /\ UNCHANGED <<store, svVars>>]_vars

\* An explicit request with an unparsable url was approved in the popup: the
\* caller has the approval and no save was started.
C23_Witness ==
    \E c \in Calls :
        /\ crPc[c] = "done"
        /\ crDapp[c] = "bad"
        /\ crResult[c] # NoResult
        /\ crResult[c].approved
        /\ \A v \in Saves : svPc[v] = "idle"
        /\ store = EmptyStore

\* C24: resolveConnectIntent(id, r) changes nothing (it returns false) when
\* the slot is empty or holds another identifier; when the slot holds id, the
\* suspended onIntent call, and no other, returns exactly r and the slot is
\* left empty.
C24_IntentResultVerbatim ==
    [][\A id \in Uuids, r \in IntentResults :
         ResolveConnectIntent(id, r)
         => IF pendingIntent # NoPending /\ pendingIntent.id = id
            THEN /\ inPc'[pendingIntent.resolve] = "done"
                 /\ inResult'[pendingIntent.resolve] = r
                 /\ \A i \in Intents : i # pendingIntent.resolve
                       => (inPc'[i] = inPc[i] /\ inResult'[i] = inResult[i])
                 /\ pendingIntent' = NoPending
            ELSE UNCHANGED vars]_vars

\* resolveConnectIntent has just handed a result to the waiting onIntent call.
C24_Witness ==
    /\ pendingIntent = NoPending
    /\ \E i \in Intents :
          /\ inPc[i] = "done"
          /\ inId[i] # NoId
          /\ inResult[i] = [result |-> "ok"]

\* revokeConnectedSite is called for task r in this step.
RevokeStarts(r) == rvPc[r] = "idle" /\ rvPc'[r] = "get"

\* C25: revokeConnectedSite(O) leaves the Store without an entry for O, or as
\* it was when its write failed; it changes nothing when O has no entry; and
\* it runs whether the Host is Active or not, without changing the Host state
\* or the pending slots.
C25_AdminIdempotent ==
    /\ [][\A r \in Revokes :
            /\ RevokeWrites(r)
               => /\ store'[rvOrigin[r]] = NoEntry \/ store' = store
                  /\ store[rvOrigin[r]] = NoEntry => store' = store
            /\ RevokeCompletes(r)
               => (store'[rvOrigin[r]] = NoEntry \/ rvPc[r] = "refused")]_vars
    /\ [][\A r \in Revokes :
            (RevokeStarts(r) \/ RevokeWrites(r) \/ RevokeCompletes(r))
            => UNCHANGED <<hostVars, slotVars, crVars, inVars>>]_vars

\* The awaited openPopupForConnect of invocation c / i settles in this step.
ConnPopupSettles(c) == crPc[c] = "popup" /\ crPc'[c] # "popup"
IntentPopupSettles(i) == inPc[i] = "popup" /\ inPc'[i] # "popup"

\* C26: whatever became of the popup, the handler that awaited it creates its
\* pending item with a fresh identifier and arms its timer (120 s for an
\* approval, 300 s for an intent), and the caller that waits on the item is
\* eventually answered.
C26_EscalationFailureTolerated ==
    /\ [][\A c \in Calls :
            ConnPopupSettles(c)
            => /\ crPc'[c] = "waiting"
               /\ pendingApproval' # NoPending
               /\ pendingApproval'.resolve = c
               /\ pendingApproval'.id = crId'[c]
               /\ approvalTimer[crId'[c]] = NoTimer
               /\ approvalTimer'[crId'[c]] = APPROVAL_TIMEOUT_MS]_vars
    /\ [][\A i \in Intents :
            IntentPopupSettles(i)
            => /\ inPc'[i] = "waiting"
               /\ pendingIntent' # NoPending
               /\ pendingIntent'.resolve = i
               /\ pendingIntent'.id = inId'[i]
               /\ intentTimer'[inId'[i]] = INTENT_TIMEOUT_MS]_vars
    /\ \A c \in Calls : (crPc[c] = "waiting") ~> (crPc[c] = "done")

\* The to-host forward of window event e fails in this step.
ForwardFails(e) == connectSend[e] = "inflight" /\ connectSend'[e] = "dropped"

\* C27: the connect relay calls chrome.runtime.sendMessage for a window event
\* only if the event came from this window and carries a connect envelope of
\* the to-host kind, and no event is sent twice (not by the legacy listener
\* either); it calls window.postMessage for a runtime message only if that is
\* a connect envelope of the to-client kind, and no message is posted twice; a
\* forward that failed stays dropped, and its failure posts nothing to the page.
C27_RelayAtMostOnce ==
    /\ [](\A e \in WinEventIds :
            /\ connectSend[e] # "none"
               => /\ winEvents[e] # NoMsg
                  /\ winEvents[e].source = "window"
                  /\ winEvents[e].envelope
                  /\ winEvents[e].type = <<"sphere-connect-ext:", "tohost">>
            /\ ~(connectSend[e] # "none" /\ legacySend[e] # "none"))
    /\ [](\A b \in BgMsgIds :
            /\ connectPost[b]
               => /\ bgEvents[b] # NoMsg
                  /\ bgEvents[b].envelope
                  /\ bgEvents[b].type = <<"sphere-connect-ext:", "toclient">>
            /\ ~(connectPost[b] /\ legacyPost[b]))
    /\ [][\A e \in WinEventIds :
            /\ ForwardFails(e) => UNCHANGED <<winEvents, winQueue>>
            /\ connectSend[e] \in {"delivered", "dropped"}
               => connectSend'[e] = connectSend[e]]_vars

\* A forward was dropped, another was delivered, and a to-client envelope was
\* posted to the page.
C27_Witness ==
    /\ \E e \in WinEventIds : connectSend[e] = "dropped"
    /\ \E e \in WinEventIds : connectSend[e] = "delivered"
    /\ \E b \in BgMsgIds : connectPost[b]
    /\ winQueue = <<>>

\* getConnectApproval / getConnectIntent is called and returns in this step.
ApprovalPeeked == peekResult = NoPeek /\ peekResult'.fn = "getConnectApproval"
IntentPeeked == peekResult = NoPeek /\ peekResult'.fn = "getConnectIntent"

\* C28: getConnectApproval returns null exactly when the approval slot is
\* empty and otherwise a record of exactly the id, dapp and
\* requestedPermissions of the item in the slot; getConnectIntent likewise
\* with id, action, params and session; the resolver is in neither, and the
\* call leaves the slots, the Store, the Host and everything else as they were.
C28_PeekReadOnly ==
    /\ [][ApprovalPeeked
            => /\ (peekResult'.value = NoPending) <=> (pendingApproval = NoPending)
               /\ pendingApproval # NoPending
                  => /\ DOMAIN peekResult'.value = {"id", "dapp", "requestedPermissions"}
                     /\ peekResult'.value.id = pendingApproval.id
                     /\ peekResult'.value.dapp = pendingApproval.dapp
                     /\ peekResult'.value.requestedPermissions
                          = pendingApproval.requestedPermissions
               /\ UNCHANGED <<walletVars, relayVars>>]_vars
    /\ [][IntentPeeked
            => /\ (peekResult'.value = NoPending) <=> (pendingIntent = NoPending)
               /\ pendingIntent # NoPending
                  => /\ DOMAIN peekResult'.value = {"id", "action", "params", "session"}
                     /\ peekResult'.value.id = pendingIntent.id
                     /\ peekResult'.value.action = pendingIntent.request.action
                     /\ peekResult'.value.params = pendingIntent.request.params
                     /\ peekResult'.value.session = pendingIntent.request.session
               /\ UNCHANGED <<walletVars, relayVars>>]_vars

\* The popup has just read a pending approval while an intent is pending too.
C28_Witness ==
    /\ peekResult.fn = "getConnectApproval"
    /\ peekResult.value # NoPending
    /\ pendingIntent # NoPending

\* Save task v is started in this step.
SaveStarts(v) == svPc[v] = "idle" /\ svPc'[v] = "get"

\* The step is a resolution that does not approve: an explicit rejection, the
\* expiry of a timer, or the teardown of the Host, by destroyConnectHost or by
\* the destroyConnectHost with which initConnectHost begins (line 118).
ResolvesWithoutApproval ==
    \/ \E id \in Uuids, g \in GrantedPermissions : ResolveConnectApproval(id, FALSE, g)
    \/ \E u \in Uuids : ApprovalTimeout(u)
    \/ DestroyConnectHost
    \/ \E sphere \in BOOLEAN : InitConnectHost(sphere)

\* C29: an origin O that had no entry has one after a step only if the step
\* is the write of a save started for an approval of O; a save is started
\* only by resolveConnectApproval called with approved = true for the item in
\* the slot; and a rejection, a timer expiry and destroyConnectHost neither
\* start a save nor change the Store.
C29_GrantsNeedApproval ==
    /\ [][\A o \in Origins :
            (store[o] = NoEntry /\ store'[o] # NoEntry)
            => \E v \in Saves :
                 /\ ApprovalWritten(v, o)
                 /\ store'[o].permissions = svPerms[v]]_vars
    /\ [][\A v \in Saves :
            SaveStarts(v)
            => \E id \in Uuids, g \in GrantedPermissions :
                 /\ ResolveConnectApproval(id, TRUE, g)
                 /\ pendingApproval # NoPending
                 /\ pendingApproval.id = id
                 /\ svDapp'[v] = pendingApproval.dapp]_vars
    /\ [][ResolvesWithoutApproval => UNCHANGED <<store, svVars>>]_vars

\* Every origin but o has after the step the entry, or the absence of an
\* entry, it had before.
OthersUntouched(o) == \A b \in Origins \ {o} : store'[b] = store[b]

\* C30: the write of a touch, of a save or of a revoke for an origin leaves
\* every other origin as the Store has it at that moment, whatever was written
\* for the other origin since the task read the Store.
C30_OneOriginOnly ==
    /\ [][\A c \in Calls :
            (crPc[c] = "get" /\ crPc'[c] # "get")
            => OthersUntouched(OriginOf(crDapp[c]))]_vars
    /\ [][\A v \in Saves :
            (svPc[v] = "get" /\ svPc'[v] # "get")
            => OthersUntouched(OriginOf(svDapp[v]))]_vars
    /\ [][\A r \in Revokes :
            (rvPc[r] = "get" /\ rvPc'[r] # "get")
            => OthersUntouched(rvOrigin[r])]_vars

\* Invocation c awaited the popup together with the call that created the
\* item now in the slot, and that call still waits for its answer.
RivalHoldsSlot(c) ==
    /\ crRival[c] # NoId
    /\ pendingApproval # NoPending
    /\ pendingApproval.id = crRival[c]
    /\ crPc[pendingApproval.resolve] = "waiting"

\* C31: of two calls that awaited the popup at the same time, the one that
\* goes on second finds the item of the first in the slot; it leaves the item
\* and its resolver there and is itself answered.
C31_ConcurrentEscalation ==
    [][\A c \in Calls :
         (ConnPopupSettles(c) /\ RivalHoldsSlot(c))
         => /\ pendingApproval' = pendingApproval
            /\ crPc'[c] = "done"]_vars

\* The requestedPermissions of the approval with identifier id.
RequestedOf(id) ==
    UNION {a.requestedPermissions : a \in {x \in ModalApprovals : x.id = id}}

\* C32: a resolve message with approved = true for approval X carries
\* identity:read and nothing outside the requestedPermissions of X and
\* identity:read.
C32_ModalGrantsWhatItShows ==
    mdSent.approved
    => /\ IDENTITY_READ \in mdSent.grantedPermissions
       /\ mdSent.grantedPermissions \subseteq RequestedOf(mdSent.id) \cup {IDENTITY_READ}

\* handleContentMessage answers in this step.
LegacyAnswered == lgResponse = NoResponse /\ lgResponse' # NoResponse

\* A send, sign-message or sign-NOSTR request passes the two tests of its
\* handler in this step.
TestsPass(h) == lgHandler[h].pc = "idle" /\ lgHandler'[h].pc = "add"

\* The transactions of the handlers that passed their tests and await
\* addPendingTransaction.
TransactionsBeingAdded ==
    {Tx(h) : h \in {g \in LgHandlers : lgHandler[g].pc = "add"}}

\* C33: a request other than SPHERE_CONNECT from an origin whose last
\* successful handleConnect is missing, or was followed by SPHERE_DISCONNECT,
\* is answered without identity, balances or public key and passes no test
\* behind which a pending transaction is created; no pending transaction
\* appears but that of a request that passed the tests; and an origin enters
\* connectedSites only while the wallet is unlocked.
C33_LegacyGate ==
    /\ [][(LegacyAnswered /\ lgResponse'.origin \notin lgGranted
              /\ lgResponse'.type # "SPHERE_CONNECT")
            => /\ lgResponse'.discloses \cap Sensitive = {}
               /\ pendingTransactions' = pendingTransactions]_vars
    /\ [][\A h \in LgHandlers :
            TestsPass(h) => lgHandler'[h].response.origin \in lgGranted]_vars
    /\ [][pendingTransactions' \sqsubseteq
             (pendingTransactions (+) SetToBag(TransactionsBeingAdded))]_vars
    /\ [][\A o \in Origins :
            (o \notin connectedSites /\ o \in connectedSites') => unlockedWallet]_vars
    /\ [](connectedSites \subseteq lgGranted)

\* An origin that is not connected has just been refused a send while the
\* wallet is unlocked, another origin is connected and a transaction of that
\* origin is pending with its handler still awaiting the popup.
C33_Witness ==
    /\ lgResponse # NoResponse
    /\ lgResponse.type = "SPHERE_SEND_TOKENS"
    /\ ~lgResponse.success
    /\ lgResponse.origin \notin lgGranted
    /\ unlockedWallet
    /\ connectedSites # {}
    /\ \E h \in LgHandlers : lgHandler[h].pc = "popup" /\ BagIn(Tx(h), pendingTransactions)

\* C34: the registered token-transfer handler returns success at most once
\* for every event id.
C34_EventProcessedOnce ==
    \A e \in EventIds : nsSuccess[e] <= 1

\* C35: whenever isConnected is true the service holds a client and a key
\* manager; and once a disconnect() has completed, isConnected is false for
\* as long as no connect() is called.
C35_ConnectionFlagConsistent ==
    /\ isConnected => (client # NoId /\ keyManager)
    /\ nsQuiet => ~isConnected

\* A connect() call is made in this step.
ConnectCalled == nsCalls' = nsCalls + 1

\* A doConnect has been started and the connect() that started it has not
\* run its finally.
AttemptInProgress == \E a \in Attempts : atPc[a] # "idle"

\* The connect() that started attempt a runs its finally in this step.
AttemptEnds(a) == atPc[a] # "idle" /\ atPc'[a] = "idle"

\* C36: a connect() call made while an attempt is in progress starts no
\* doConnect and waits on that attempt; a connect() call on a connected
\* service changes nothing; and when an attempt ends, a failed one included
\* (refused key, relays not reached, nothing to subscribe with),
\* isConnecting is false and connectPromise is cleared.
C36_SingleFlight ==
    [][ /\ (ConnectCalled /\ AttemptInProgress) =>
              /\ atPc' = atPc
              /\ \E a \in Attempts : /\ atPc[a] # "idle"
                                     /\ atWaiters'[a] = atWaiters[a] + 1
        /\ (ConnectCalled /\ isConnected) =>
              UNCHANGED <<client, keyManager, isConnected, isConnecting,
                          connectPromise, atPc, atSeen, dcPc, nsSubscribed, eventVars>>
        /\ \A a \in Attempts :
              AttemptEnds(a) => (~isConnecting' /\ connectPromise' = NoId)
      ]_vars

====
